---------------------------- MODULE Spec2Model ----------------------------
(***************************************************************************)
(* A model of hydra-cpp's configuration core: the ConfigNode tree and its  *)
(* merge, the path operations find_path / assign_path, the defaults        *)
(* composition of load_yaml_file and the interpolation resolver.           *)
(*                                                                         *)
(* A std::string is a sequence of one-character strings, so that the       *)
(* scans of the code ("${", '}', '.', '\\', '?') are scans here as well.   *)
(* A ConfigNode is a record whose field t names the active variant of the  *)
(* std::variant; each variant keeps its payload in a field of its own.     *)
(***************************************************************************)
EXTENDS Integers, Sequences, FiniteSets, TLC

VARIABLES
  \* ---- assign_path driver
  cfg,        \* the tree the overrides are applied to
  last,       \* the last assign_path call: arguments, tree before, outcome
  ncalls,     \* the number of calls made
  scen,       \* outcomes of the calls so far while they follow the test's four calls
  \* ---- merge driver
  mdst,       \* destination (after the call once mpc = "done")
  mdst0,      \* destination as it was before the call
  msrc,       \* source
  mpc,        \* "init" | "done"
  \* ---- load_yaml_file driver
  fs,         \* the files that exist: normalised path -> parsed content
  lstack,     \* load_yaml_file's std::set stack (the visiting set)
  frames,     \* the active load_with_includes calls, innermost last
  lpc,        \* where the innermost call stands
  lcallee,    \* the path argument of the call being entered
  lret,       \* the value the call that just returned has returned
  lerr,       \* the exception that ended the load
  llog,       \* the merges done so far, in order
  lparsed,    \* the files parsed so far, in order
  lsteps,     \* the number of steps the load has taken
  \* ---- resolve_interpolations driver
  rroot,      \* the tree being resolved in place
  rorig,      \* the tree as it was when the call was made
  renv,       \* the process environment: variable name -> value
  resolving,  \* std::set resolving
  resolved,   \* std::set resolved
  rstack,     \* the active resolve_node / resolve_string calls, innermost last
  rpc,        \* "run" | "done" | "failed"
  rerr,       \* the exception that ended the pass
  rret,       \* the string the resolve_string call that just returned has returned
  rsteps,     \* the number of steps the pass has taken
  rscans,     \* the paths of the string nodes resolve_string was called on
  \* ---- merged driver (three trees, both groupings)
  ta,         \* the base tree
  tb,         \* the first override tree
  tc,         \* the second override tree
  tleft,      \* merged(merged(ta, tb), tc) once computed
  tright,     \* merged(ta, merged(tb, tc)) once computed
  tpc,        \* the groupings computed so far
  \* ---- parse_override driver
  oexpr,      \* the command-line expression
  ores,       \* the Override parse_override returned, or the error it threw
  \* ---- path rendering driver
  pcomponents, \* the components handed to build_path_expression
  ptext,      \* the expression build_path_expression returned
  pres,       \* what parse_override_path made of ptext
  ppc,        \* "init" | "rendered" | "parsed"
  \* ---- YAML round-trip driver
  ytree,      \* the tree handed to to_yaml_string
  ytext,      \* the text to_yaml_string returned
  yload,      \* what load_yaml_string made of ytext
  ypc,        \* "init" | "emitted" | "loaded"
  \* ---- hydra::utils::initialize driver
  argc,       \* the argument count
  argv,       \* the argument vector, argv[0] first
  default_config, \* the default_config parameter
  ifs,        \* the file system: normalized path -> parsed root
  config_files, \* the config files still to be merged
  overrides,  \* the override expressions still to be applied
  config,     \* the tree being built
  iover,      \* the tree as it was after the last override
  ipc,        \* "idle" | "args" | "run" | "resolve" | "returned" | "thrown"
  ierr,       \* the exception that ended the call
  \* ---- C API drivers (src/c_api.cpp)
  hconfig,    \* the node of the hydra_config
  hshadow,    \* the node the same merges and overrides make without any read
  hread,      \* the last read: its path and what it returned
  hcalls,     \* the number of C API calls made
  iter,       \* the hydra_config_iter, or the null iterator
  ihist,      \* what each hydra_config_iter_next call returned, in order
  ihas,       \* the last hydra_config_has call on a returned child_path
  \* ---- logging driver (src/logging.cpp)
  log_file_handle,          \* the FILE* of the log file, 0 for nullptr
  current_log_file_path,    \* the path the module believes it logs to
  log_file_callback_index,  \* what log_add_fp returned, -1 before
  log_level,  \* the level given to log_set_level
  streams,    \* the FILE objects fopen has returned: path and open or closed
  callbacks,  \* the FILE* values registered with log.c, in order
  logcalls,   \* the number of logging calls made
  lastlog     \* the last logging call: its path and how it ended

loadVars ==
  <<fs, lstack, frames, lpc, lcallee, lret, lerr, llog, lparsed, lsteps>>

resolveVars ==
  <<rroot, rorig, renv, resolving, resolved, rstack, rpc, rerr, rret,
    rsteps, rscans>>

mergedVars == <<ta, tb, tc, tleft, tright, tpc>>
overrideVars == <<oexpr, ores>>
pathVars == <<pcomponents, ptext, pres, ppc>>
yamlVars == <<ytree, ytext, yload, ypc>>
textVars == <<mergedVars, overrideVars, pathVars, yamlVars>>
initVars ==
  <<argc, argv, default_config, ifs, config_files, overrides, config, iover,
    ipc, ierr>>
capiVars == <<hconfig, hshadow, hread, hcalls, iter, ihist, ihas>>
logVars ==
  <<log_file_handle, current_log_file_path, log_file_callback_index,
    log_level, streams, callbacks, logcalls, lastlog>>
apiVars == <<initVars, capiVars, logVars>>

vars ==
  <<cfg, last, ncalls, scen, mdst, mdst0, msrc, mpc, loadVars, resolveVars,
    textVars, apiVars>>

assignVars == <<cfg, last, ncalls, scen>>
mergeVars  == <<mdst, mdst0, msrc, mpc>>

-----------------------------------------------------------------------------
(* ConfigNode: constructors, one per variant.                              *)

make_null == [t |-> "null"]
make_bool(b) == [t |-> "bool", b |-> b]
make_int(i) == [t |-> "int", i |-> i]
make_string(s) == [t |-> "string", s |-> s]
make_seq(q) == [t |-> "sequence", q |-> q]
make_map(m) == [t |-> "mapping", m |-> m]
make_sequence == make_seq(<<>>)
make_mapping == make_map(<<>>)

is_null(n) == n.t = "null"
is_bool(n) == n.t = "bool"
is_int(n) == n.t = "int"
is_string(n) == n.t = "string"
is_sequence(n) == n.t = "sequence"
is_mapping(n) == n.t = "mapping"

\* std::map::emplace / operator[] on the key k.
MapPut(m, k, v) == [x \in (DOMAIN m) \cup {k} |-> IF x = k THEN v ELSE m[x]]

Range(f) == {f[x] : x \in DOMAIN f}

\* std::map::erase(k).
MapErase(m, k) == [x \in (DOMAIN m) \ {k} |-> m[x]]

RECURSIVE deep_copy_impl(_)
deep_copy_impl(node) ==
  IF is_sequence(node)
    THEN make_seq([i \in 1..Len(node.q) |-> deep_copy_impl(node.q[i])])
  ELSE IF is_mapping(node)
    THEN make_map([k \in DOMAIN node.m |-> deep_copy_impl(node.m[k])])
  ELSE node

deep_copy(node) == deep_copy_impl(node)

-----------------------------------------------------------------------------
(* merge(destination, source): the value of destination after the call.    *)

RECURSIVE merge(_, _)

\* A mutant of merge_maps: a key present in both maps takes the source's value.
merge_maps_replace(destination, source) ==
  [k \in (DOMAIN destination) \cup (DOMAIN source) |->
     IF k \in DOMAIN source THEN deep_copy(source[k]) ELSE destination[k]]

merge_maps(destination, source) ==
  [k \in (DOMAIN destination) \cup (DOMAIN source) |->
     IF k \notin DOMAIN source THEN destination[k]
     ELSE IF k \notin DOMAIN destination THEN deep_copy(source[k])
     ELSE merge(destination[k], source[k])]

\* A mutant of merge: a sequence merged into a sequence is appended to it.
merge_sequences_append(destination, source) ==
  IF is_null(source) THEN make_null
  ELSE IF is_null(destination) THEN deep_copy(source)
  ELSE IF is_mapping(destination) /\ is_mapping(source)
    THEN make_map(merge_maps(destination.m, source.m))
  ELSE IF is_sequence(destination) /\ is_sequence(source)
    THEN make_seq(destination.q \o deep_copy(source).q)
  ELSE deep_copy(source)

\* A mutant of merge: a null source is treated as "absent" and ignored.
merge_null_absent(destination, source) ==
  IF is_null(source) THEN destination
  ELSE IF is_null(destination) THEN deep_copy(source)
  ELSE IF is_mapping(destination) /\ is_mapping(source)
    THEN make_map(merge_maps(destination.m, source.m))
  ELSE deep_copy(source)

merge(destination, source) ==
  IF is_null(source) THEN make_null
  ELSE IF is_null(destination) THEN deep_copy(source)
  ELSE IF is_mapping(destination) /\ is_mapping(source)
    THEN make_map(merge_maps(destination.m, source.m))
  ELSE deep_copy(source)

-----------------------------------------------------------------------------
(* find_path: [found |-> FALSE] is the nullptr result.                     *)

NotFound == [found |-> FALSE]
Found(n) == [found |-> TRUE, node |-> n]

RECURSIVE find_from(_, _, _)
find_from(current, path, i) ==
  IF i > Len(path) THEN Found(current)
  ELSE IF ~is_mapping(current) THEN NotFound
  ELSE IF path[i] \notin DOMAIN current.m THEN NotFound
  ELSE find_from(current.m[path[i]], path, i + 1)

find_path(root, path) == find_from(root, path, 1)

-----------------------------------------------------------------------------
(* assign_path: [ok, err, seg, root]; root is the tree as the call leaves  *)
(* it, also when it throws (the walk mutates the tree in place).           *)

Thrown(e, seg, node) == [ok |-> FALSE, err |-> e, seg |-> seg, root |-> node]
Done(node) == [ok |-> TRUE, err |-> "none", seg |-> <<>>, root |-> node]

RECURSIVE assign_walk(_, _, _, _, _)

\* A mutant of assign_walk: with require_new an existing leaf is overwritten.
assign_walk_overwrite(current, path, i, value, require_new) ==
  LET segment == path[i]
      is_leaf == (i = Len(path))
      present == segment \in DOMAIN current.m
      Sub(child) ==
        LET r == assign_walk(child, path, i + 1, value, require_new)
        IN  [r EXCEPT !.root = make_map(MapPut(current.m, segment, r.root))]
  IN
  IF is_leaf THEN
    IF ~present /\ ~require_new
      THEN Thrown("KeyDoesNotExist", segment, current)
      ELSE Done(make_map(MapPut(current.m, segment, value)))
  ELSE
    IF ~present THEN
      IF ~require_new THEN Thrown("ComponentDoesNotExist", segment, current)
      ELSE Sub(make_mapping)
    ELSE IF ~is_mapping(current.m[segment])
      THEN Thrown("ComponentNotMapping", segment, current)
    ELSE Sub(current.m[segment])

assign_walk(current, path, i, value, require_new) ==
  LET segment == path[i]
      is_leaf == (i = Len(path))
      present == segment \in DOMAIN current.m
      Sub(child) ==
        LET r == assign_walk(child, path, i + 1, value, require_new)
        IN  [r EXCEPT !.root = make_map(MapPut(current.m, segment, r.root))]
  IN
  IF is_leaf THEN
    IF ~present THEN
      IF ~require_new THEN Thrown("KeyDoesNotExist", segment, current)
      ELSE Done(make_map(MapPut(current.m, segment, value)))
    ELSE
      IF require_new THEN Thrown("KeyAlreadyExists", segment, current)
      ELSE Done(make_map(MapPut(current.m, segment, value)))
  ELSE
    IF ~present THEN
      IF ~require_new THEN Thrown("ComponentDoesNotExist", segment, current)
      ELSE Sub(make_mapping)
    ELSE IF ~is_mapping(current.m[segment])
      THEN Thrown("ComponentNotMapping", segment, current)
    ELSE Sub(current.m[segment])

assign_path(root, path, value, require_new) ==
  IF path = <<>> THEN Thrown("EmptyPath", <<>>, root)
  ELSE IF ~is_mapping(root) /\ ~is_null(root)
    THEN Thrown("RootNotMapping", <<>>, root)
  ELSE LET r0 == IF is_null(root) THEN make_mapping ELSE root
       IN  assign_walk(r0, path, 1, value, require_new)

-----------------------------------------------------------------------------
(* split_path_expression / parse_override_path (src/overrides.cpp): the    *)
(* components of a dotted path, '\' escaping the next character.           *)

PathError(e) == [ok |-> FALSE, err |-> e, components |-> <<>>]
PathOk(c) == [ok |-> TRUE, err |-> "none", components |-> c]

RECURSIVE split_scan(_, _, _, _, _)
split_scan(expression, i, components, current, escape) ==
  IF i > Len(expression) THEN
    IF escape THEN PathError("DanglingEscape")
    ELSE IF current = <<>> THEN PathError("EndsWithDot")
    ELSE PathOk(Append(components, current))
  ELSE
    LET ch == expression[i] IN
    IF escape
      THEN split_scan(expression, i + 1, components, Append(current, ch), FALSE)
    ELSE IF ch = "\\"
      THEN split_scan(expression, i + 1, components, current, TRUE)
    ELSE IF ch = "."
      THEN IF current = <<>> THEN PathError("EmptyComponent")
           ELSE split_scan(expression, i + 1, Append(components, current),
                           <<>>, FALSE)
    ELSE split_scan(expression, i + 1, components, Append(current, ch), FALSE)

split_path_expression(expression) ==
  split_scan(expression, 1, <<>>, <<>>, FALSE)

parse_override_path(expression) == split_path_expression(expression)

-----------------------------------------------------------------------------
(* std::filesystem::path as the loader uses it.  A path is the sequence of *)
(* its components below the file system's root; the model's file system    *)
(* has no symbolic links and every path is taken from the root directory.  *)

isspace(ch) == ch \in {" ", "\t", "\n", "\r"}

RECURSIVE trim_front(_)
trim_front(text) ==
  IF text # <<>> /\ isspace(Head(text)) THEN trim_front(Tail(text)) ELSE text

RECURSIVE trim_back(_)
trim_back(text) ==
  IF text # <<>> /\ isspace(text[Len(text)])
    THEN trim_back(SubSeq(text, 1, Len(text) - 1))
    ELSE text

trim_copy(text) == trim_back(trim_front(text))

\* The components of a path string, split at '/'; empty components vanish.
RECURSIVE path_components(_, _, _)
path_components(text, i, current) ==
  IF i > Len(text) THEN (IF current = <<>> THEN <<>> ELSE <<current>>)
  ELSE IF text[i] = "/"
    THEN (IF current = <<>> THEN <<>> ELSE <<current>>)
         \o path_components(text, i + 1, <<>>)
  ELSE path_components(text, i + 1, Append(current, text[i]))

\* path::filename(): the text after the last '/'.
RECURSIVE filename_from(_, _)
filename_from(text, i) ==
  IF i = 0 \/ text[i] = "/" THEN SubSeq(text, i + 1, Len(text))
  ELSE filename_from(text, i - 1)

filename(text) == filename_from(text, Len(text))

\* path::has_extension(): a '.' in the filename that is not its first
\* character; "." and ".." have none.
has_extension(text) ==
  LET f == filename(text)
  IN  /\ f # <<".">> /\ f # <<".", ".">>
      /\ \E i \in 2..Len(f) : f[i] = "."

DotYaml == <<".", "y", "a", "m", "l">>

\* path::lexically_normal() on components: "." vanishes, "x/.." cancels,
\* ".." at the root vanishes.
RECURSIVE normal_components(_, _)
normal_components(comps, acc) ==
  IF comps = <<>> THEN acc
  ELSE IF Head(comps) = <<".">> THEN normal_components(Tail(comps), acc)
  ELSE IF Head(comps) = <<".", ".">>
    THEN normal_components(Tail(comps),
           IF acc = <<>> THEN acc ELSE SubSeq(acc, 1, Len(acc) - 1))
  ELSE normal_components(Tail(comps), Append(acc, Head(comps)))

lexically_normal(comps) == normal_components(comps, <<>>)

\* weakly_canonical of a path from the root directory, without symlinks.
normalize_path(comps) == lexically_normal(comps)

\* path::parent_path().
parent_path(comps) ==
  IF comps = <<>> THEN <<>> ELSE SubSeq(comps, 1, Len(comps) - 1)

\* The candidate of parse_default_entry: the default extension appended to
\* a name without one, a relative path taken from base_dir, then normalised.
include_candidate(text, base_dir) ==
  LET named == IF has_extension(text) THEN text ELSE text \o DotYaml
      rel   == named = <<>> \/ Head(named) # "/"
  IN  lexically_normal((IF rel THEN base_dir ELSE <<>>)
                       \o path_components(named, 1, <<>>))

\* The leading '?' of an optional entry, and one blank after it, removed.
strip_optional(text) ==
  IF text # <<>> /\ Head(text) = "?"
    THEN LET rest == Tail(text)
         IN  IF rest # <<>> /\ Head(rest) = " " THEN Tail(rest) ELSE rest
    ELSE text

is_optional(text) == text # <<>> /\ Head(text) = "?"

-----------------------------------------------------------------------------
(* parse_default_entry: a DefaultSpec, or the exception it throws.         *)

EntryError(e) == [ok |-> FALSE, err |-> e]

DefaultSpec(include_path, has_target, target_path, optional) ==
  [ok |-> TRUE, include_path |-> include_path, has_target |-> has_target,
   target_path |-> target_path, optional |-> optional]

\* A mutant of parse_default_entry: the '?' marker never makes an entry optional.
parse_default_entry_no_optional(entry, base_dir) ==
  IF is_string(entry) THEN
    DefaultSpec(include_candidate(trim_copy(strip_optional(entry.s)), base_dir),
                FALSE, <<>>, FALSE)
  ELSE IF is_mapping(entry) THEN
    IF Cardinality(DOMAIN entry.m) # 1 THEN EntryError("MappingNotOneKey")
    ELSE LET k == CHOOSE x \in DOMAIN entry.m : TRUE
             key == trim_copy(strip_optional(k))
             tp == parse_override_path(key)
         IN  IF ~is_string(entry.m[k]) THEN EntryError("MappingValueNotString")
             ELSE IF ~tp.ok THEN EntryError(tp.err)
             ELSE DefaultSpec(
                    include_candidate(key \o <<"/">> \o entry.m[k].s, base_dir),
                    TRUE, tp.components, FALSE)
  ELSE EntryError("UnsupportedEntryType")

parse_default_entry(entry, base_dir) ==
  IF is_string(entry) THEN
    DefaultSpec(include_candidate(trim_copy(strip_optional(entry.s)), base_dir),
                FALSE, <<>>, is_optional(entry.s))
  ELSE IF is_mapping(entry) THEN
    IF Cardinality(DOMAIN entry.m) # 1 THEN EntryError("MappingNotOneKey")
    ELSE LET k == CHOOSE x \in DOMAIN entry.m : TRUE
             key == trim_copy(strip_optional(k))
             tp == parse_override_path(key)
         IN  IF ~is_string(entry.m[k]) THEN EntryError("MappingValueNotString")
             ELSE IF ~tp.ok THEN EntryError(tp.err)
             ELSE DefaultSpec(
                    include_candidate(key \o <<"/">> \o entry.m[k].s, base_dir),
                    TRUE, tp.components, is_optional(k))
  ELSE EntryError("UnsupportedEntryType")

-----------------------------------------------------------------------------
(* Each driver runs alone; the other drivers' variables idle meanwhile.     *)

NoCall == [called |-> FALSE]

AssignIdle ==
  cfg = make_null /\ last = NoCall /\ ncalls = 0 /\ scen = <<"off">>

MergeIdle ==
  mdst = make_null /\ mdst0 = make_null /\ msrc = make_null /\ mpc = "idle"

NoError == [kind |-> "none", path |-> <<>>]

LoadIdle ==
  /\ fs = <<>> /\ lstack = {} /\ frames = <<>> /\ lpc = "idle"
  /\ lcallee = <<>> /\ lret = make_null /\ lerr = NoError
  /\ llog = <<>> /\ lparsed = <<>> /\ lsteps = 0

NoFault == [kind |-> "none", text |-> <<>>]

ResolveIdle ==
  /\ rroot = make_null /\ rorig = make_null /\ renv = <<>>
  /\ resolving = {} /\ resolved = {} /\ rstack = <<>>
  /\ rpc = "idle" /\ rerr = NoFault /\ rret = <<>> /\ rsteps = 0
  /\ rscans = <<>>

MergedIdle ==
  /\ ta = make_null /\ tb = make_null /\ tc = make_null
  /\ tleft = make_null /\ tright = make_null /\ tpc = {}

OverrideIdle == oexpr = <<>> /\ ores = NoCall

PathIdle ==
  pcomponents = <<>> /\ ptext = <<>> /\ pres = NoCall /\ ppc = "idle"

YamlIdle ==
  ytree = make_null /\ ytext = <<>> /\ yload = NoCall /\ ypc = "idle"

TextIdle == MergedIdle /\ OverrideIdle /\ PathIdle /\ YamlIdle

InitializeIdle ==
  /\ argc = 0 /\ argv = <<>> /\ default_config = <<>> /\ ifs = <<>>
  /\ config_files = <<>> /\ overrides = <<>> /\ config = make_null
  /\ iover = NoCall /\ ipc = "idle" /\ ierr = "none"

NullIter ==
  [null |-> TRUE, kind |-> "none", base_path |-> <<>>, sequence |-> <<>>,
   mapping |-> <<>>, keys |-> <<>>, map_it |-> 0, index |-> 0]

CApiIdle ==
  /\ hconfig = make_null /\ hshadow = make_null /\ hread = NoCall
  /\ hcalls = 0 /\ iter = NullIter /\ ihist = <<>> /\ ihas = NoCall

\* logging.cpp:22-24 and log.c before any call: no file, level LOG_TRACE.
LoggingIdle ==
  /\ log_file_handle = 0 /\ current_log_file_path = <<>>
  /\ log_file_callback_index = -1 /\ log_level = "LOG_TRACE"
  /\ streams = <<>> /\ callbacks = <<>> /\ logcalls = 0 /\ lastlog = NoCall

ApiIdle == InitializeIdle /\ CApiIdle /\ LoggingIdle

-----------------------------------------------------------------------------
(* Driver 1: a caller applying overrides to one tree, one assign_path call *)
(* per step (tests/test_main.cpp, assign_path_behaviour).                  *)

Ka == <<"a">>
Kb == <<"b">>

\* The number of assign_path calls a caller makes on one tree.
MaxCalls == 4

\* Every path of one or two segments over the keys a and b.
AssignPaths == UNION {[1..n -> {Ka, Kb}] : n \in 1..2}
AssignValues == {make_int(1), make_int(2), make_mapping}
AssignRoots == {make_mapping, make_null, make_int(1)}

\* The inputs of the four calls of assign_path_behaviour, in order.
ScenarioPath == <<Ka, Kb>>
ScenarioNew == <<FALSE, TRUE, TRUE, FALSE>>

AssignInit ==
  /\ cfg \in AssignRoots
  /\ last = NoCall
  /\ ncalls = 0
  /\ scen = IF cfg = make_mapping THEN <<>> ELSE <<"off">>
  /\ MergeIdle /\ LoadIdle /\ ResolveIdle /\ TextIdle /\ ApiIdle

Assign(path, value, require_new) ==
  LET r == assign_path(cfg, path, value, require_new)
      n == Len(scen) + 1
  IN  /\ ncalls < MaxCalls
      /\ ncalls' = ncalls + 1
      /\ cfg' = r.root
      /\ last' = [called |-> TRUE, path |-> path, value |-> value,
                  require_new |-> require_new, before |-> cfg,
                  ok |-> r.ok, err |-> r.err, seg |-> r.seg]
      /\ scen' = IF scen # <<"off">> /\ n <= Len(ScenarioNew)
                    /\ path = ScenarioPath /\ require_new = ScenarioNew[n]
                   THEN Append(scen, IF r.ok THEN "ok" ELSE "throws")
                   ELSE <<"off">>

AssignNext ==
  /\ \E path \in AssignPaths, value \in AssignValues, require_new \in BOOLEAN :
       Assign(path, value, require_new)
  /\ UNCHANGED <<mergeVars, loadVars, resolveVars, textVars, apiVars>>

SpecAssign == AssignInit /\ [][AssignNext]_vars

-----------------------------------------------------------------------------
(* Driver 2: one merge(destination, source) call on a pair of trees.       *)

MergeLeaves == {make_null, make_int(1), make_seq(<<make_int(1)>>),
                make_seq(<<make_int(2), make_int(1)>>)}

\* Every mapping over a subset of keys with values in vals.
MapsOver(keys, vals) ==
  UNION {[ks -> vals] : ks \in SUBSET keys}

MergeInner == {make_map(m) : m \in MapsOver({Ka, Kb}, MergeLeaves)}

MergeTrees ==
  MergeLeaves \cup
  {make_map(m) : m \in
     {f \in MapsOver({Ka, Kb}, MergeLeaves \cup MergeInner) :
        Kb \in DOMAIN f => f[Kb] \in MergeLeaves}}

MergeInit ==
  /\ mdst \in MergeTrees
  /\ msrc \in MergeTrees
  /\ mdst0 = mdst
  /\ mpc = "init"
  /\ AssignIdle /\ LoadIdle /\ ResolveIdle /\ TextIdle /\ ApiIdle

MergeCall ==
  /\ mpc = "init"
  /\ mdst' = merge(mdst, msrc)
  /\ mpc' = "done"
  /\ UNCHANGED <<mdst0, msrc>>

\* The same source merged into the destination a second time; mdst0 now
\* keeps the destination as the first call left it.
MergeAgain ==
  /\ mpc = "done"
  /\ mdst' = merge(mdst, msrc)
  /\ mdst0' = mdst
  /\ mpc' = "again"
  /\ UNCHANGED msrc

MergeNext ==
  /\ (MergeCall \/ MergeAgain)
  /\ UNCHANGED <<assignVars, loadVars, resolveVars, textVars, apiVars>>

SpecMerge == MergeInit /\ [][MergeNext]_vars

-----------------------------------------------------------------------------
(* Driver 3: load_yaml_file(r.yaml) over a small file system.              *)
(* load_with_includes runs one step at a time: the membership check, the   *)
(* parse, one step per defaults entry, the root's merge and the return.    *)

\* The node at an existing path replaced (a write through find_path's pointer).
RECURSIVE set_at(_, _, _, _)
set_at(current, path, i, node) ==
  IF i > Len(path) THEN node
  ELSE make_map([current.m EXCEPT
                   ![path[i]] = set_at(current.m[path[i]], path, i + 1, node)])

Kdefaults == <<"d", "e", "f", "a", "u", "l", "t", "s">>
SelfMarker == <<"_", "s", "e", "l", "f", "_">>

\* A mutant of place_child: a group's file is merged at the root as well.
place_child_at_root(result, spec, child) ==
  [ok |-> TRUE, err |-> "none", result |-> merge(result, child)]

\* What the loop body does with a loaded child: under target_path when the
\* entry has one (merged into the node there, else assigned as a new key),
\* otherwise merged at the root of the accumulator.
place_child(result, spec, child) ==
  IF spec.has_target THEN
    LET existing == find_path(result, spec.target_path) IN
    IF ~existing.found
      THEN LET r == assign_path(result, spec.target_path, child, TRUE)
           IN  [ok |-> r.ok, err |-> r.err, result |-> r.root]
      ELSE [ok |-> TRUE, err |-> "none",
            result |-> set_at(result, spec.target_path, 1,
                              merge(existing.node, child))]
  ELSE [ok |-> TRUE, err |-> "none", result |-> merge(result, child)]

NoSpec == [ok |-> FALSE, err |-> "none"]

Top == frames[Len(frames)]
SetTop(f) == [frames EXCEPT ![Len(frames)] = f]

Fail(kind, path) ==
  /\ lpc' = "failed"
  /\ lerr' = [kind |-> kind, path |-> path]

\* A mutant of LoadCheck: the call is entered without looking at the stack.
LoadCheck_unguarded ==
  /\ lpc = "call"
  /\ lstack' = lstack \cup {normalize_path(lcallee)}
  /\ frames' = Append(frames,
       [path |-> normalize_path(lcallee), root |-> make_null,
        result |-> make_null, has_defaults |-> FALSE, defaults |-> <<>>,
        idx |-> 1, spec |-> NoSpec])
  /\ lpc' = "parse"
  /\ UNCHANGED <<fs, lcallee, lret, lerr, llog, lparsed>>

\* Lines 716-722: normalise, insert into the stack or throw.
LoadCheck ==
  /\ lpc = "call"
  /\ LET normalized == normalize_path(lcallee) IN
     IF normalized \in lstack
       THEN /\ Fail("RecursiveInclude", normalized)
            /\ UNCHANGED <<lstack, frames>>
       ELSE /\ lstack' = lstack \cup {normalized}
            /\ frames' = Append(frames,
                 [path |-> normalized, root |-> make_null, result |-> make_null,
                  has_defaults |-> FALSE, defaults |-> <<>>, idx |-> 1,
                  spec |-> NoSpec])
            /\ lpc' = "parse"
            /\ UNCHANGED lerr
  /\ UNCHANGED <<fs, lcallee, lret, llog, lparsed>>

\* Lines 724-737: parse the file, look for the defaults sequence.
LoadParse ==
  /\ lpc = "parse"
  /\ IF Top.path \notin DOMAIN fs
       THEN /\ Fail("OpenFailed", Top.path)
            /\ UNCHANGED <<frames, lparsed>>
       ELSE
         LET root == fs[Top.path] IN
         /\ lparsed' = Append(lparsed, Top.path)
         /\ IF is_mapping(root) /\ Kdefaults \in DOMAIN root.m
                /\ ~is_sequence(root.m[Kdefaults])
              THEN /\ Fail("DefaultsNotSequence", Top.path)
                   /\ frames' = SetTop([Top EXCEPT !.root = root,
                                                   !.result = make_mapping])
              ELSE /\ frames' = SetTop(
                        [Top EXCEPT
                           !.root = root,
                           !.result = IF is_mapping(root) THEN make_mapping
                                      ELSE make_null,
                           !.has_defaults =
                              is_mapping(root) /\ Kdefaults \in DOMAIN root.m,
                           !.defaults =
                              IF is_mapping(root) /\ Kdefaults \in DOMAIN root.m
                                THEN root.m[Kdefaults].q ELSE <<>>])
                   /\ lpc' = "entries"
                   /\ UNCHANGED lerr
  /\ UNCHANGED <<fs, lstack, lcallee, lret, llog>>

\* Lines 738-753: one defaults entry, up to the recursive call.
LoadEntry ==
  /\ lpc = "entries"
  /\ Top.idx <= Len(Top.defaults)
  /\ LET entry == Top.defaults[Top.idx]
         skip  == /\ frames' = SetTop([Top EXCEPT !.idx = @ + 1])
                  /\ UNCHANGED <<lpc, lerr, lcallee>>
     IN
     IF is_string(entry) /\ entry.s = SelfMarker THEN skip
     ELSE
       LET spec == parse_default_entry(entry, parent_path(Top.path)) IN
       IF ~spec.ok
         THEN Fail(spec.err, <<>>) /\ UNCHANGED <<frames, lcallee>>
       ELSE IF spec.include_path \notin DOMAIN fs
         THEN IF spec.optional THEN skip
              ELSE /\ Fail("IncludeNotFound", spec.include_path)
                   /\ UNCHANGED <<frames, lcallee>>
       ELSE /\ frames' = SetTop([Top EXCEPT !.spec = spec])
            /\ lcallee' = spec.include_path
            /\ lpc' = "call"
            /\ UNCHANGED lerr
  /\ UNCHANGED <<fs, lstack, lret, llog, lparsed>>

\* Lines 754-763: the child has returned; place it in the accumulator.
LoadReturn ==
  /\ lpc = "return"
  /\ LET r == place_child(Top.result, Top.spec, lret) IN
     /\ llog' = Append(llog,
          [depth |-> Len(frames), file |-> Top.path, idx |-> Top.idx,
           kind |-> IF Top.spec.has_target THEN "group" ELSE "plain",
           target |-> Top.spec.target_path,
           acc |-> Top.result, child |-> lret, ok |-> r.ok, out |-> r.result])
     /\ IF r.ok
          THEN /\ frames' = SetTop([Top EXCEPT !.result = r.result,
                                               !.idx = @ + 1, !.spec = NoSpec])
               /\ lpc' = "entries"
               /\ UNCHANGED lerr
          ELSE /\ frames' = SetTop([Top EXCEPT !.result = r.result])
               /\ Fail(r.err, <<>>)
  /\ UNCHANGED <<fs, lstack, lcallee, lret, lparsed>>

\* A mutant of LoadFinish: the accumulator is merged on top of the root's
\* content, so that an included value wins over the root's.
LoadFinish_includes_win ==
  /\ lpc = "entries"
  /\ Top.idx > Len(Top.defaults)
  /\ LET body == IF Top.has_defaults
                   THEN make_map(MapErase(Top.root.m, Kdefaults))
                   ELSE Top.root
         result == IF is_mapping(Top.root) THEN merge(body, Top.result)
                   ELSE Top.root
     IN  /\ llog' = Append(llog,
               [depth |-> Len(frames), file |-> Top.path, idx |-> Top.idx,
                kind |-> "root", target |-> <<>>,
                acc |-> Top.result, child |-> body, ok |-> TRUE,
                out |-> result])
         /\ lret' = result
  /\ lstack' = lstack \ {Top.path}
  /\ frames' = SubSeq(frames, 1, Len(frames) - 1)
  /\ lpc' = IF Len(frames) = 1 THEN "done" ELSE "return"
  /\ UNCHANGED <<fs, lcallee, lerr, lparsed>>

\* A mutant of LoadFinish: the path stays in the stack when the call returns.
LoadFinish_keeps_stack ==
  /\ lpc = "entries"
  /\ Top.idx > Len(Top.defaults)
  /\ LET body == IF Top.has_defaults
                   THEN make_map(MapErase(Top.root.m, Kdefaults))
                   ELSE Top.root
         result == IF is_mapping(Top.root) THEN merge(Top.result, body)
                   ELSE Top.root
     IN  /\ llog' = Append(llog,
               [depth |-> Len(frames), file |-> Top.path, idx |-> Top.idx,
                kind |-> "root", target |-> <<>>,
                acc |-> Top.result, child |-> body, ok |-> TRUE,
                out |-> result])
         /\ lret' = result
  /\ lstack' = lstack
  /\ frames' = SubSeq(frames, 1, Len(frames) - 1)
  /\ lpc' = IF Len(frames) = 1 THEN "done" ELSE "return"
  /\ UNCHANGED <<fs, lcallee, lerr, lparsed>>

\* Lines 765-774: erase "defaults", merge the root's own content (or take a
\* non-mapping root as it is), leave the stack, return.
LoadFinish ==
  /\ lpc = "entries"
  /\ Top.idx > Len(Top.defaults)
  /\ LET body == IF Top.has_defaults
                   THEN make_map(MapErase(Top.root.m, Kdefaults))
                   ELSE Top.root
         result == IF is_mapping(Top.root) THEN merge(Top.result, body)
                   ELSE Top.root
     IN  /\ llog' = Append(llog,
               [depth |-> Len(frames), file |-> Top.path, idx |-> Top.idx,
                kind |-> "root", target |-> <<>>,
                acc |-> Top.result, child |-> body, ok |-> TRUE,
                out |-> result])
         /\ lret' = result
  /\ lstack' = lstack \ {Top.path}
  /\ frames' = SubSeq(frames, 1, Len(frames) - 1)
  /\ lpc' = IF Len(frames) = 1 THEN "done" ELSE "return"
  /\ UNCHANGED <<fs, lcallee, lerr, lparsed>>

LoadStep == LoadCheck \/ LoadParse \/ LoadEntry \/ LoadReturn \/ LoadFinish

LoadNext ==
  /\ LoadStep
  /\ lsteps' = lsteps + 1
  /\ UNCHANGED <<assignVars, mergeVars, resolveVars, textVars, apiVars>>

LoadEnded == lpc \in {"done", "failed"}

-----------------------------------------------------------------------------
(* load_yaml_file as a function of the file system: the outcome of the     *)
(* whole call, used to compare the loads of two different root files.      *)

LoadThrows(kind, path) ==
  [ok |-> FALSE, err |-> [kind |-> kind, path |-> path], node |-> make_null]
LoadReturns(node) == [ok |-> TRUE, err |-> NoError, node |-> node]

RECURSIVE load_with_includes(_, _, _)
RECURSIVE load_defaults(_, _, _, _, _, _)

\* The loop of lines 738-764 from entry i on, result being the accumulator.
load_defaults(files, normalized, stack, defaults, i, result) ==
  IF i > Len(defaults) THEN LoadReturns(result)
  ELSE
    LET entry == defaults[i] IN
    IF is_string(entry) /\ entry.s = SelfMarker
      THEN load_defaults(files, normalized, stack, defaults, i + 1, result)
    ELSE
      LET spec == parse_default_entry(entry, parent_path(normalized)) IN
      IF ~spec.ok THEN LoadThrows(spec.err, <<>>)
      ELSE IF spec.include_path \notin DOMAIN files
        THEN IF spec.optional
               THEN load_defaults(files, normalized, stack, defaults, i + 1,
                                  result)
               ELSE LoadThrows("IncludeNotFound", spec.include_path)
      ELSE
        LET child == load_with_includes(files, spec.include_path, stack) IN
        IF ~child.ok THEN child
        ELSE LET r == place_child(result, spec, child.node) IN
             IF ~r.ok THEN LoadThrows(r.err, <<>>)
             ELSE load_defaults(files, normalized, stack, defaults, i + 1,
                                r.result)

load_with_includes(files, path, stack) ==
  LET normalized == normalize_path(path) IN
  IF normalized \in stack THEN LoadThrows("RecursiveInclude", normalized)
  ELSE IF normalized \notin DOMAIN files
    THEN LoadThrows("OpenFailed", normalized)
  ELSE
    LET root == files[normalized] IN
    IF ~is_mapping(root) THEN LoadReturns(root)
    ELSE IF Kdefaults \notin DOMAIN root.m
      THEN LoadReturns(merge(make_mapping, root))
    ELSE IF ~is_sequence(root.m[Kdefaults])
      THEN LoadThrows("DefaultsNotSequence", normalized)
    ELSE
      LET r == load_defaults(files, normalized, stack \cup {normalized},
                             root.m[Kdefaults].q, 1, make_mapping)
      IN  IF ~r.ok THEN r
          ELSE LoadReturns(merge(r.node,
                                 make_map(MapErase(root.m, Kdefaults))))

load_yaml_file(files, path) == load_with_includes(files, path, {})

\* What the run of load_yaml_file has come to, once it has ended.
LoadOutcome ==
  IF lpc = "done" THEN LoadReturns(lret)
  ELSE [ok |-> FALSE, err |-> lerr, node |-> make_null]

-----------------------------------------------------------------------------
(* The file systems load_yaml_file is run on.                              *)

Kg == <<"g">>
Kh == <<"h">>
Kk == <<"k">>

FileR == << <<"r">> \o DotYaml >>
FileB == << <<"b">> \o DotYaml >>
FileC == << <<"c">> \o DotYaml >>
FileGX == << Kg, <<"x">> \o DotYaml >>
FileGY == << Kg, <<"y">> \o DotYaml >>

\* The entries a defaults list of r.yaml is made of.
RootEntries ==
  { make_string(<<"b">>),                      \* b.yaml
    make_string(<<"?", " ", "c">>),            \* c.yaml, optional
    make_string(SelfMarker),
    make_map(Kg :> make_string(<<"x">>)),      \* g/x.yaml under g
    make_map(<<"?", "g">> :> make_string(<<"x">>)),
    make_int(1) }                              \* not an entry

\* The longest defaults list of r.yaml.
MaxDefaults == 2

RootDefaults ==
  {make_seq(q) : q \in UNION {[1..n -> RootEntries] : n \in 0..MaxDefaults}}
    \cup {make_string(<<"b">>)}

RootBodies ==
  { Ka :> make_int(3),
    (Kg :> make_int(5)) @@ (Kb :> make_int(6)),
    (Kg :> make_map(Kh :> make_int(9))) @@ (Ka :> make_map(Kb :> make_int(5))) }

RootContents ==
  {make_map(b) : b \in RootBodies}
    \cup {make_map((Kdefaults :> d) @@ b) : d \in RootDefaults, b \in RootBodies}

Absent == [t |-> "absent"]

ContentsB ==
  { Absent,
    make_map((Ka :> make_int(1)) @@ (Kg :> make_map(Kk :> make_int(1)))),
    make_map((Kdefaults :> make_seq(<<make_string(<<"r">>)>>))
             @@ (Ka :> make_int(1))),
    make_map((Kdefaults :> make_seq(<<make_string(<<"g", "/", "y">>)>>))
             @@ (Ka :> make_int(1))),
    make_null }

ContentsC ==
  { Absent,
    make_map((Ka :> make_int(2)) @@ (Kg :> make_int(7))),
    make_int(7) }

ContentsGX ==
  { Absent,
    make_map(Kh :> make_int(2)),
    make_map((Kdefaults :> make_seq(<<make_string(<<"y">>)>>))
             @@ (Kh :> make_int(2))),
    make_map(Kdefaults :> make_seq(<<make_string(<<"x", ".", "y", "a", "m", "l">>)>>)) }

ContentGY == make_map(Kk :> make_int(4))

FileSystem(r, b, c, gx) ==
  LET all == (FileR :> r) @@ (FileB :> b) @@ (FileC :> c) @@ (FileGX :> gx)
               @@ (FileGY :> ContentGY)
  IN  [p \in {q \in DOMAIN all : all[q] # Absent} |-> all[p]]

LoadInit ==
  /\ \E r \in RootContents \cup {Absent}, b \in ContentsB, c \in ContentsC,
        gx \in ContentsGX :
       fs = FileSystem(r, b, c, gx)
  /\ lstack = {} /\ frames = <<>>
  /\ lpc = "call" /\ lcallee = FileR
  /\ lret = make_null /\ lerr = NoError
  /\ llog = <<>> /\ lparsed = <<>> /\ lsteps = 0
  /\ AssignIdle /\ MergeIdle /\ ResolveIdle /\ TextIdle /\ ApiIdle

SpecLoad == LoadInit /\ [][LoadNext]_vars

\* The step-by-step loader and the function agree on every file system.
LoadAgrees == LoadEnded => LoadOutcome = load_yaml_file(fs, FileR)

-----------------------------------------------------------------------------
(* Claims about assign_path (SpecAssign).                                   *)

\* The success condition of the claim, read off the tree before the call:
\* every non-leaf prefix of the path names a mapping, or is absent while
\* require_new is set, and the leaf exists exactly when require_new is unset.
AssignShouldSucceed(t, p, require_new) ==
  /\ \A i \in 1..(Len(p) - 1) :
       LET f == find_path(t, SubSeq(p, 1, i))
       IN  IF f.found THEN is_mapping(f.node) ELSE require_new
  /\ find_path(t, p).found # require_new

ScenarioOutcome == <<"throws", "ok", "throws", "ok">>

\* C1: on a mapping-rooted tree assign_path succeeds exactly when every
\* non-leaf segment names a mapping (or is absent under require_new) and the
\* leaf's existence differs from require_new; otherwise it throws; after a
\* success find_path returns the value; and from the empty tree the calls
\* plain, '+', '+', plain on [a,b] end throws, ok, throws, ok.
C1_AssignContract ==
  /\ (last.called /\ is_mapping(last.before)) =>
       /\ last.ok <=> AssignShouldSucceed(last.before, last.path, last.require_new)
       /\ ~last.ok => (last.err # "none" /\ last.seg \in Range(last.path))
       /\ last.ok => find_path(cfg, last.path) = Found(last.value)
  /\ scen # <<"off">> =>
       \A i \in 1..Len(scen) : scen[i] = ScenarioOutcome[i]

\* C1 witness: the test's four calls have run, the last one replacing 1 by 2.
C1_Witness ==
  /\ scen = ScenarioOutcome
  /\ find_path(last.before, ScenarioPath) = Found(make_int(1))
  /\ find_path(cfg, ScenarioPath) = Found(make_int(2))

-----------------------------------------------------------------------------
(* Claims about merge (SpecMerge).                                          *)

\* C2: merging mapping S into mapping D leaves D with the keys of both; a
\* key only in D keeps its value, a key only in S holds S's value, a key in
\* both holds the merge of the two values, which for two mappings is again a
\* mapping with the keys of both (D's other keys are not lost).
C2_MergeMappings ==
  (mpc = "done" /\ is_mapping(mdst0) /\ is_mapping(msrc)) =>
    /\ is_mapping(mdst)
    /\ DOMAIN mdst.m = (DOMAIN mdst0.m) \cup (DOMAIN msrc.m)
    /\ \A k \in DOMAIN mdst.m :
         LET inD == k \in DOMAIN mdst0.m
             inS == k \in DOMAIN msrc.m
         IN  /\ (inD /\ ~inS) => mdst.m[k] = mdst0.m[k]
             /\ (inS /\ ~inD) => mdst.m[k] = msrc.m[k]
             /\ (inD /\ inS) =>
                  /\ mdst.m[k] = merge(mdst0.m[k], msrc.m[k])
                  /\ (is_mapping(mdst0.m[k]) /\ is_mapping(msrc.m[k])) =>
                       /\ is_mapping(mdst.m[k])
                       /\ DOMAIN mdst.m[k].m =
                            (DOMAIN mdst0.m[k].m) \cup (DOMAIN msrc.m[k].m)
                       /\ \A j \in (DOMAIN mdst0.m[k].m) \ (DOMAIN msrc.m[k].m) :
                            mdst.m[k].m[j] = mdst0.m[k].m[j]

\* C2 witness: both trees hold a mapping under a, with different keys in it,
\* and the merged value is neither of the two.
C2_Witness ==
  /\ mpc = "done" /\ is_mapping(mdst0) /\ is_mapping(msrc)
  /\ Ka \in DOMAIN mdst0.m /\ Ka \in DOMAIN msrc.m
  /\ is_mapping(mdst0.m[Ka]) /\ is_mapping(msrc.m[Ka])
  /\ DOMAIN mdst0.m[Ka].m = {Ka} /\ DOMAIN msrc.m[Ka].m = {Kb}
  /\ mdst.m[Ka] # msrc.m[Ka] /\ mdst.m[Ka] # mdst0.m[Ka]
  /\ Kb \in (DOMAIN mdst0.m) \ (DOMAIN msrc.m)

\* C3: unless both are mappings, merge leaves the destination equal to the
\* source (null source: null; null destination: the source; any other pair,
\* two sequences included: the source); the same holds at a key present in
\* both mappings, where a null in the source erases the destination's value.
C3_MergeReplace ==
  mpc = "done" =>
    /\ ~(is_mapping(mdst0) /\ is_mapping(msrc)) => mdst = msrc
    /\ is_null(msrc) => is_null(mdst)
    /\ (is_mapping(mdst0) /\ is_mapping(msrc)) =>
         \A k \in (DOMAIN mdst0.m) \cap (DOMAIN msrc.m) :
           ~(is_mapping(mdst0.m[k]) /\ is_mapping(msrc.m[k])) =>
             mdst.m[k] = msrc.m[k]

\* C3 witness: two different sequences were merged; the result is the source.
C3_Witness ==
  /\ mpc = "done" /\ is_sequence(mdst0) /\ is_sequence(msrc)
  /\ Len(mdst0.q) = 1 /\ Len(msrc.q) = 2 /\ mdst = msrc

-----------------------------------------------------------------------------
(* Claims about load_yaml_file (SpecLoad).                                  *)

\* The defaults list of r.yaml, when it has one.
RootList ==
  IF /\ FileR \in DOMAIN fs /\ is_mapping(fs[FileR])
     /\ Kdefaults \in DOMAIN fs[FileR].m
     /\ is_sequence(fs[FileR].m[Kdefaults])
    THEN fs[FileR].m[Kdefaults].q
    ELSE <<>>

\* The file system with r.yaml's defaults list replaced.
WithRootList(q) ==
  [fs EXCEPT ![FileR] =
     make_map([fs[FileR].m EXCEPT ![Kdefaults] = make_seq(q)])]

RemoveAt(q, i) == SubSeq(q, 1, i - 1) \o SubSeq(q, i + 1, Len(q))

IsSelf(entry) == is_string(entry) /\ entry.s = SelfMarker

\* The content of an included file is in the tree under target: each of its
\* scalar values at target.key, or the file's value itself when the file is
\* no mapping.
Appears(tree, target, child) ==
  IF is_mapping(child)
    THEN \A k \in DOMAIN child.m :
           ~is_mapping(child.m[k]) =>
             find_path(tree, target \o <<k>>) = Found(child.m[k])
    ELSE find_path(tree, target) = Found(child)

\* The merges of r.yaml's own call, by position in the log.
RootMerges == {i \in 1..Len(llog) : llog[i].depth = 1}
GroupMerges == {i \in 1..Len(llog) : llog[i].kind = "group"}

\* Nothing merged after merge i into r.yaml's accumulator has the top-level
\* key of merge i's target.
NotTouchedLater(i) ==
  \A j \in RootMerges :
    j > i =>
      IF llog[j].kind = "group"
        THEN llog[j].target[1] # llog[i].target[1]
        ELSE /\ is_mapping(llog[j].child)
             /\ llog[i].target[1] \notin DOMAIN llog[j].child.m

\* assign_path(acc, target, child, true) can insert: the accumulator is a
\* mapping or null, and no prefix of target names a non-mapping.
InsertPossible(acc, target) ==
  /\ is_null(acc) \/ is_mapping(acc)
  /\ AssignShouldSucceed(IF is_null(acc) THEN make_mapping ELSE acc,
                         target, TRUE)

C5_MergeOrder ==
  /\ \A i, j \in RootMerges :
       i < j => /\ llog[i].kind # "root"
                /\ llog[j].kind # "root" => llog[i].idx < llog[j].idx
  /\ \A i \in 1..Len(llog) :
       LET e == llog[i] IN
       /\ (e.kind = "root" /\ is_mapping(e.child)) =>
            /\ is_mapping(e.out)
            /\ \A k \in DOMAIN e.child.m :
                 /\ k \in DOMAIN e.out.m
                 /\ ~is_mapping(e.child.m[k]) => e.out.m[k] = e.child.m[k]
                 /\ is_mapping(e.child.m[k]) =>
                      /\ is_mapping(e.out.m[k])
                      /\ DOMAIN e.child.m[k].m \subseteq DOMAIN e.out.m[k].m
                      /\ (/\ is_mapping(e.acc) /\ k \in DOMAIN e.acc.m
                          /\ is_mapping(e.acc.m[k])) =>
                           DOMAIN e.acc.m[k].m \subseteq DOMAIN e.out.m[k].m
       /\ (e.kind = "plain" /\ is_mapping(e.child) /\ is_mapping(e.acc)) =>
            \A k \in DOMAIN e.child.m :
              ~is_mapping(e.child.m[k]) => e.out.m[k] = e.child.m[k]
       /\ (e.depth = 1 /\ e.kind # "root") => ~IsSelf(RootList[e.idx])
  /\ lpc = "done" =>
       /\ llog # <<>>
       /\ llog[Len(llog)].kind = "root" /\ llog[Len(llog)].depth = 1
       /\ lret = llog[Len(llog)].out
  /\ LoadEnded =>
       \A i \in 1..Len(RootList) :
         IsSelf(RootList[i]) =>
           LoadOutcome = load_yaml_file(WithRootList(RemoveAt(RootList, i)),
                                        FileR)

\* C5 witness: the list is [_self_, b]; b.yaml sets a: 1 and r.yaml a: 3;
\* b was merged first and r.yaml last although _self_ comes first: a is 3.
C5_Witness ==
  /\ lpc = "done"
  /\ Len(RootList) = 2 /\ IsSelf(RootList[1])
  /\ Len(llog) >= 2
  /\ llog[Len(llog) - 1].kind = "plain" /\ llog[Len(llog) - 1].depth = 1
  /\ find_path(llog[Len(llog) - 1].out, <<Ka>>) = Found(make_int(1))
  /\ find_path(lret, <<Ka>>) = Found(make_int(3))

-----------------------------------------------------------------------------
(* The include graph of a file system, read off the files' defaults lists. *)

DefaultsOf(files, path) ==
  IF /\ path \in DOMAIN files /\ is_mapping(files[path])
     /\ Kdefaults \in DOMAIN files[path].m
     /\ is_sequence(files[path].m[Kdefaults])
    THEN files[path].m[Kdefaults].q
    ELSE <<>>

\* The existing files that the defaults list of path names.
Includes(files, path) ==
  LET q == DefaultsOf(files, path) IN
  { parse_default_entry(q[i], parent_path(path)).include_path :
      i \in { j \in 1..Len(q) :
                /\ ~IsSelf(q[j])
                /\ parse_default_entry(q[j], parent_path(path)).ok
                /\ parse_default_entry(q[j], parent_path(path)).include_path
                     \in DOMAIN files } }

RECURSIVE IncludeClosure(_, _, _)
IncludeClosure(files, set, n) ==
  IF n = 0 THEN set
  ELSE IncludeClosure(files,
         set \cup UNION {Includes(files, p) : p \in set}, n - 1)

\* The files reached from path by one include or more.
IncludedFrom(files, path) ==
  IncludeClosure(files, Includes(files, path), Cardinality(DOMAIN files))

\* Some file that the load of r.yaml reaches includes itself through a chain.
CycleReachable ==
  \E p \in {FileR} \cup IncludedFrom(fs, FileR) : p \in IncludedFrom(fs, p)

\* The entry is marked optional: a leading '?' on its string value or on
\* the key of its one-key mapping.
MarkedOptional(entry) ==
  \/ is_string(entry) /\ entry.s # <<>> /\ Head(entry.s) = "?"
  \/ /\ is_mapping(entry)
     /\ \E k \in DOMAIN entry.m : k # <<>> /\ Head(k) = "?"

\* No file the load can reach has a fault other than a cycle: every file
\* exists, defaults is a sequence, every entry is well formed and names an
\* existing file unless it is optional.
NoOtherFault ==
  /\ FileR \in DOMAIN fs
  /\ \A p \in {FileR} \cup IncludedFrom(fs, FileR) :
       /\ ~(/\ is_mapping(fs[p]) /\ Kdefaults \in DOMAIN fs[p].m
            /\ ~is_sequence(fs[p].m[Kdefaults]))
       /\ \A i \in 1..Len(DefaultsOf(fs, p)) :
            LET entry == DefaultsOf(fs, p)[i]
                spec  == parse_default_entry(entry, parent_path(p))
            IN  \/ IsSelf(entry)
                \/ /\ spec.ok
                   /\ spec.include_path \in DOMAIN fs \/ MarkedOptional(entry)

PlacementErrors ==
  {"RootNotMapping", "ComponentNotMapping", "ComponentDoesNotExist",
   "KeyAlreadyExists", "KeyDoesNotExist", "EmptyPath"}

Occurrences(q, x) == Cardinality({i \in 1..Len(q) : q[i] = x})

\* C6: no file is entered while its own load is in progress: the call on a
\* path of the visiting set throws the recursive-include error naming that
\* path, a file of the chain, before the file is parsed again; a load that
\* reaches a file including itself through a chain fails, and with the
\* recursive-include error when the files have no other fault.
C6_CyclicInclude ==
  /\ \A i, j \in 1..Len(frames) : frames[i].path = frames[j].path => i = j
  /\ (lpc = "failed" /\ lerr.kind = "RecursiveInclude") =>
       /\ lerr.path = normalize_path(lcallee)
       /\ lerr.path \in lstack
       /\ \E i \in 1..Len(frames) : frames[i].path = lerr.path
       /\ lerr.path \in IncludedFrom(fs, lerr.path)
       /\ Occurrences(lparsed, lerr.path) = 1
       /\ lparsed[Len(lparsed)] = Top.path
  /\ (LoadEnded /\ CycleReachable) =>
       /\ lpc = "failed"
       /\ NoOtherFault =>
            lerr.kind \in {"RecursiveInclude"} \cup PlacementErrors
  /\ lpc = "done" => ~CycleReachable

\* C6 witness: r.yaml includes b.yaml and b.yaml includes r.yaml; the call
\* on r.yaml made from b.yaml has thrown.
C6_Witness ==
  /\ lpc = "failed" /\ lerr = [kind |-> "RecursiveInclude", path |-> FileR]
  /\ Len(frames) = 2 /\ frames[1].path = FileR /\ frames[2].path = FileB
  /\ lparsed = <<FileR, FileB>>

\* The entries of r.yaml's list that are optional and whose file is missing.
SkippedEntries ==
  {i \in 1..Len(RootList) :
     LET spec == parse_default_entry(RootList[i], parent_path(FileR))
     IN  /\ ~IsSelf(RootList[i]) /\ spec.ok
         /\ spec.include_path \notin DOMAIN fs
         /\ MarkedOptional(RootList[i])}

\* C7: the load never gets past an entry whose file is missing unless the
\* entry is marked optional with '?': it throws the not-found error naming
\* the file; an optional entry with a missing file merges nothing, and the
\* load ends as the load of the same root without that entry.
C7_MissingInclude ==
  /\ \A n \in 1..Len(frames) :
       \A i \in 1..Len(frames[n].defaults) :
         LET entry == frames[n].defaults[i]
             spec == parse_default_entry(entry, parent_path(frames[n].path))
             passed == i < frames[n].idx
             missing == /\ ~IsSelf(entry) /\ spec.ok
                        /\ spec.include_path \notin DOMAIN fs
         IN  /\ (passed /\ missing) => MarkedOptional(entry)
             /\ (/\ lpc = "failed" /\ n = Len(frames) /\ i = frames[n].idx
                 /\ missing /\ ~MarkedOptional(entry)) =>
                  lerr = [kind |-> "IncludeNotFound",
                          path |-> spec.include_path]
  /\ (lpc = "failed" /\ lerr.kind = "IncludeNotFound") =>
       /\ lerr.path \notin DOMAIN fs
       /\ ~MarkedOptional(Top.defaults[Top.idx])
       /\ parse_default_entry(Top.defaults[Top.idx],
                              parent_path(Top.path)).include_path = lerr.path
  /\ \A i \in RootMerges :
       llog[i].kind # "root" => llog[i].idx \notin SkippedEntries
  /\ LoadEnded =>
       \A i \in SkippedEntries :
         LoadOutcome = load_yaml_file(WithRootList(RemoveAt(RootList, i)),
                                      FileR)

\* C7 witness: the list is ['? c', {g: x}], c.yaml is missing and was
\* skipped, g/x.yaml was loaded, and the load has returned.
C7_Witness ==
  /\ lpc = "done"
  /\ SkippedEntries = {1} /\ Len(RootList) = 2
  /\ is_string(RootList[1])
  /\ Len(llog) = 3 /\ llog[2].kind = "group" /\ llog[2].idx = 2
  /\ find_path(lret, <<Kg, Kh>>) = Found(make_int(2))

-----------------------------------------------------------------------------
(* The interpolation resolver (interpolation.cpp): string helpers.         *)

\* The characters of the model in ASCII order; std::map iterates its keys
\* in the order operator< of std::string gives them.
Ascii ==
  <<" ", "$", "%", ",", "-", ".", "/",
    "0", "1", "2", "3", "4", "5", "6", "7", "8", "9", ":", "<", ">", "?",
    "V", "W", "Y", "\\", "_",
    "a", "b", "c", "d", "e", "f", "g", "h", "i", "j", "k", "l", "m", "n",
    "o", "p", "q", "r", "s", "t", "u", "v", "w", "x", "y", "z", "{", "}">>

Code(ch) == CHOOSE i \in 1..Len(Ascii) : Ascii[i] = ch

RECURSIVE StrLess(_, _)
StrLess(a, b) ==
  IF b = <<>> THEN FALSE
  ELSE IF a = <<>> THEN TRUE
  ELSE IF Head(a) = Head(b) THEN StrLess(Tail(a), Tail(b))
  ELSE Code(Head(a)) < Code(Head(b))

\* The keys of a std::map in iteration order.
RECURSIVE SortedKeys(_)
SortedKeys(keys) ==
  IF keys = {} THEN <<>>
  ELSE LET k == CHOOSE x \in keys : \A y \in keys \ {x} : StrLess(x, y)
       IN  <<k>> \o SortedKeys(keys \ {k})

DecimalDigits == <<"0", "1", "2", "3", "4", "5", "6", "7", "8", "9">>

RECURSIVE to_string_digits(_)
to_string_digits(n) ==
  IF n < Len(DecimalDigits) THEN <<DecimalDigits[n + 1]>>
  ELSE to_string_digits(n \div Len(DecimalDigits))
         \o <<DecimalDigits[(n % Len(DecimalDigits)) + 1]>>

\* std::to_string on an integer.
to_string(n) ==
  IF n < 0 THEN <<"-">> \o to_string_digits(-n) ELSE to_string_digits(n)

\* Positions are counted from 0 as in std::string; npos is represented by
\* the size of the string searched, which no position of a match equals.
npos(value) == Len(value)

RECURSIVE find(_, _, _)
find(value, pattern, pos) ==
  IF pos + Len(pattern) > Len(value) THEN npos(value)
  ELSE IF SubSeq(value, pos + 1, pos + Len(pattern)) = pattern THEN pos
  ELSE find(value, pattern, pos + 1)

substr(value, pos, count) ==
  SubSeq(value, pos + 1,
         IF pos + count > Len(value) THEN Len(value) ELSE pos + count)

substr_from(value, pos) == SubSeq(value, pos + 1, Len(value))

\* expression.rfind(prefix, 0) == 0
starts_with(text, prefix) ==
  Len(text) >= Len(prefix) /\ SubSeq(text, 1, Len(prefix)) = prefix

PlaceholderOpen == <<"$", "{">>
PlaceholderClose == <<"}">>
NowPrefix == <<"n", "o", "w", ":">>
EnvPrefix == <<"o", "c", ".", "e", "n", "v", ":">>
RootKey == <<"<", "r", "o", "o", "t", ">">>
Comma == <<",">>

\* Lines 19-31: the components joined with '.', nothing escaped.
RECURSIVE join_from(_, _)
join_from(path, i) ==
  IF i > Len(path) THEN <<>>
  ELSE (IF i > 1 THEN <<".">> ELSE <<>>) \o path[i] \o join_from(path, i + 1)

join_path(path) == IF path = <<>> THEN RootKey ELSE join_from(path, 1)

StringOk(text) == [ok |-> TRUE, s |-> text]
StringThrows == [ok |-> FALSE, s |-> <<>>]

\* Lines 47-66 (the model's trees hold no double).
node_to_string(node) ==
  IF is_string(node) THEN StringOk(node.s)
  ELSE IF is_int(node) THEN StringOk(to_string(node.i))
  ELSE IF is_bool(node)
    THEN StringOk(IF node.b THEN <<"t", "r", "u", "e">>
                  ELSE <<"f", "a", "l", "s", "e">>)
  ELSE IF is_null(node) THEN StringOk(<<"n", "u", "l", "l">>)
  ELSE StringThrows

\* strftime on the conversions the model's formats use: %Y is the year, %%
\* a percent sign, any other text is copied.
RECURSIVE strftime(_, _)
strftime(format, tm) ==
  IF format = <<>> THEN <<>>
  ELSE IF Head(format) = "%" /\ Len(format) > 1
    THEN (IF format[2] = "Y" THEN tm.year
          ELSE IF format[2] = "%" THEN <<"%">>
          ELSE SubSeq(format, 1, 2))
         \o strftime(SubSeq(format, 3, Len(format)), tm)
  ELSE <<Head(format)>> \o strftime(Tail(format), tm)

\* time_utils.cpp: strftime writing nothing ends, after the buffer has
\* grown to its limit, in the exception (the model's formats stay far below
\* the buffer's first size).
format_now(format, tm) ==
  LET written == strftime(format, tm)
  IN  IF Len(written) > 0 THEN StringOk(written) ELSE StringThrows

\* The local times the clock may show when format_now samples it.
Clocks == {[year |-> <<"2", "0", "2", "6">>], [year |-> <<"2", "0", "2", "7">>]}

\* std::getenv: the value of a set variable, a null pointer otherwise.
getenv(env, var) ==
  IF var \in DOMAIN env THEN [set |-> TRUE, s |-> env[var]]
  ELSE [set |-> FALSE, s |-> <<>>]

\* A mutant of resolve_env_expression: a variable set to the empty string
\* counts as set.
resolve_env_expression_empty_is_set(env, body) ==
  LET comma == find(body, Comma, 0)
      var == trim_copy(substr(body, 0, comma))
      fallback == IF comma = npos(body) THEN <<>>
                  ELSE trim_copy(substr_from(body, comma + 1))
      env_value == getenv(env, var)
  IN  IF env_value.set
        THEN [direct |-> TRUE, s |-> env_value.s]
      ELSE IF fallback = <<>> THEN [direct |-> TRUE, s |-> <<>>]
      ELSE [direct |-> FALSE, s |-> fallback]

\* Lines 84-96 of resolve_env_expression: the value the expression has
\* without a recursive call (direct), or the fallback to resolve.
resolve_env_expression(env, body) ==
  LET comma == find(body, Comma, 0)
      var == trim_copy(substr(body, 0, comma))
      fallback == IF comma = npos(body) THEN <<>>
                  ELSE trim_copy(substr_from(body, comma + 1))
      env_value == getenv(env, var)
  IN  IF env_value.set /\ env_value.s # <<>>
        THEN [direct |-> TRUE, s |-> env_value.s]
      ELSE IF fallback = <<>> THEN [direct |-> TRUE, s |-> <<>>]
      ELSE [direct |-> FALSE, s |-> fallback]

\* The index a sequence child's path component stands for.
SeqIndex(q, seg) == CHOOSE i \in 1..Len(q) : to_string(i - 1) = seg

\* The node a resolve_node call holds a reference to, by the path it was
\* reached on: mapping keys, and decimal indices into sequences.
RECURSIVE node_at(_, _, _)
node_at(current, path, i) ==
  IF i > Len(path) THEN current
  ELSE IF is_mapping(current) THEN node_at(current.m[path[i]], path, i + 1)
  ELSE node_at(current.q[SeqIndex(current.q, path[i])], path, i + 1)

\* The write through that reference (line 180).
RECURSIVE node_put(_, _, _, _)
node_put(current, path, i, node) ==
  IF i > Len(path) THEN node
  ELSE IF is_mapping(current)
    THEN make_map([current.m EXCEPT
           ![path[i]] = node_put(current.m[path[i]], path, i + 1, node)])
  ELSE make_seq([current.q EXCEPT
         ![SeqIndex(current.q, path[i])] =
            node_put(current.q[SeqIndex(current.q, path[i])], path, i + 1,
                     node)])

-----------------------------------------------------------------------------
(* Driver 4: resolve_interpolations(root), one step per call entered, per  *)
(* placeholder evaluated and per return.  A frame is a resolve_node call   *)
(* (kind "node") or a resolve_string call (kind "string"); the calls       *)
(* resolve_expression and resolve_env_expression run inside the step of    *)
(* the resolve_string call that makes them.                                *)

NodeFrame(path) ==
  [kind |-> "node", path |-> path, phase |-> "enter", todo |-> <<>>,
   value |-> <<>>, pos |-> 0, result |-> <<>>, target |-> <<>>]

StringFrame(path, value) ==
  [kind |-> "string", path |-> path, phase |-> "scan", todo |-> <<>>,
   value |-> value, pos |-> 0, result |-> <<>>, target |-> <<>>]

RTop == rstack[Len(rstack)]
RPop == SubSeq(rstack, 1, Len(rstack) - 1)
RSetTop(f) == [rstack EXCEPT ![Len(rstack)] = f]
RRunning(kind, phase) ==
  rpc = "run" /\ rstack # <<>> /\ RTop.kind = kind /\ RTop.phase = phase

\* An exception leaves resolve_interpolations; nothing is caught on the way.
RThrow(kind, text) ==
  /\ rpc' = "failed"
  /\ rerr' = [kind |-> kind, text |-> text]
  /\ UNCHANGED <<rroot, resolving, resolved, rstack, rret>>

\* A resolve_node call returns to its caller, or to resolve_interpolations.
RReturn ==
  /\ rstack' = RPop
  /\ rpc' = IF Len(rstack) = 1 THEN "done" ELSE "run"

\* The sequence children's path components: to_string(idx), idx from 0.
IndexKeys(q) == [i \in 1..Len(q) |-> to_string(i - 1)]

\* A mutant of ResolveEnter: the call proceeds although the key is already
\* in resolving.
ResolveEnter_unguarded ==
  /\ RRunning("node", "enter")
  /\ LET key == join_path(RTop.path)
         node == node_at(rroot, RTop.path, 1)
     IN
     IF key \in resolved
       THEN /\ RReturn
            /\ UNCHANGED <<rroot, resolving, resolved, rerr, rret>>
     ELSE /\ resolving' = resolving \cup {key}
          /\ rstack' =
               IF is_mapping(node)
                 THEN RSetTop([RTop EXCEPT !.phase = "children",
                                           !.todo = SortedKeys(DOMAIN node.m)])
               ELSE IF is_sequence(node)
                 THEN RSetTop([RTop EXCEPT !.phase = "children",
                                           !.todo = IndexKeys(node.q)])
               ELSE IF is_string(node)
                 THEN Append(RSetTop([RTop EXCEPT !.phase = "assign"]),
                             StringFrame(RTop.path, node.s))
               ELSE RSetTop([RTop EXCEPT !.phase = "exit"])
          /\ UNCHANGED <<rroot, resolved, rpc, rerr, rret>>
  /\ UNCHANGED <<rorig, renv>>

\* A mutant of ResolveEnter: a node is resolved again although its key
\* is in resolved.
ResolveEnter_ignores_resolved ==
  /\ RRunning("node", "enter")
  /\ LET key == join_path(RTop.path)
         node == node_at(rroot, RTop.path, 1)
     IN
     IF key \in resolving
       THEN RThrow("Cycle", key)
     ELSE /\ resolving' = resolving \cup {key}
          /\ rstack' =
               IF is_mapping(node)
                 THEN RSetTop([RTop EXCEPT !.phase = "children",
                                           !.todo = SortedKeys(DOMAIN node.m)])
               ELSE IF is_sequence(node)
                 THEN RSetTop([RTop EXCEPT !.phase = "children",
                                           !.todo = IndexKeys(node.q)])
               ELSE IF is_string(node)
                 THEN Append(RSetTop([RTop EXCEPT !.phase = "assign"]),
                             StringFrame(RTop.path, node.s))
               ELSE RSetTop([RTop EXCEPT !.phase = "exit"])
          /\ UNCHANGED <<rroot, resolved, rpc, rerr, rret>>
  /\ UNCHANGED <<rorig, renv>>

\* Lines 154-164, 170, 177-179: the key's bookkeeping, then the branch on
\* the node's type.
ResolveEnter ==
  /\ RRunning("node", "enter")
  /\ LET key == join_path(RTop.path)
         node == node_at(rroot, RTop.path, 1)
     IN
     IF key \in resolved
       THEN /\ RReturn
            /\ UNCHANGED <<rroot, resolving, resolved, rerr, rret>>
     ELSE IF key \in resolving
       THEN RThrow("Cycle", key)
     ELSE /\ resolving' = resolving \cup {key}
          /\ rstack' =
               IF is_mapping(node)
                 THEN RSetTop([RTop EXCEPT !.phase = "children",
                                           !.todo = SortedKeys(DOMAIN node.m)])
               ELSE IF is_sequence(node)
                 THEN RSetTop([RTop EXCEPT !.phase = "children",
                                           !.todo = IndexKeys(node.q)])
               ELSE IF is_string(node)
                 THEN Append(RSetTop([RTop EXCEPT !.phase = "assign"]),
                             StringFrame(RTop.path, node.s))
               ELSE RSetTop([RTop EXCEPT !.phase = "exit"])
          /\ UNCHANGED <<rroot, resolved, rpc, rerr, rret>>
  /\ UNCHANGED <<rorig, renv>>

\* Lines 165-169 and 172-176: the call on the next child.
ResolveChild ==
  /\ RRunning("node", "children")
  /\ RTop.todo # <<>>
  /\ rstack' = Append(RSetTop([RTop EXCEPT !.todo = Tail(@)]),
                      NodeFrame(Append(RTop.path, Head(RTop.todo))))
  /\ UNCHANGED <<rroot, rorig, renv, resolving, resolved, rpc, rerr, rret>>

\* Line 180: the string node takes the value resolve_string has returned.
ResolveAssign ==
  /\ RRunning("node", "assign")
  /\ rroot' = node_put(rroot, RTop.path, 1, make_string(rret))
  /\ rstack' = RSetTop([RTop EXCEPT !.phase = "exit"])
  /\ UNCHANGED <<rorig, renv, resolving, resolved, rpc, rerr, rret>>

\* Lines 183-185: the key moves from resolving to resolved; return.
ResolveExit ==
  /\ \/ RRunning("node", "exit")
     \/ RRunning("node", "children") /\ RTop.todo = <<>>
  /\ LET key == join_path(RTop.path) IN
       /\ resolving' = resolving \ {key}
       /\ resolved' = resolved \cup {key}
  /\ RReturn
  /\ UNCHANGED <<rroot, rorig, renv, rerr, rret>>

\* Lines 100-122 (with 79-98): the expression of one placeholder, evaluated
\* in the resolve_string frame f; a reference and a fallback make a call.
ResolveExpression(f, expression) ==
  IF starts_with(expression, NowPrefix) THEN
    \E tm \in Clocks :
      LET text == format_now(substr_from(expression, Len(NowPrefix)), tm) IN
      IF text.ok
        THEN /\ rstack' = RSetTop([f EXCEPT !.result = @ \o text.s])
             /\ UNCHANGED <<rroot, resolving, resolved, rpc, rerr, rret>>
        ELSE RThrow("FormatFailed", expression)
  ELSE IF starts_with(expression, EnvPrefix) THEN
    LET env == resolve_env_expression(
                 renv, substr_from(expression, Len(EnvPrefix)))
    IN  /\ rstack' =
             IF env.direct
               THEN RSetTop([f EXCEPT !.result = @ \o env.s])
               ELSE Append(RSetTop([f EXCEPT !.phase = "env"]),
                           StringFrame(f.path, env.s))
        /\ UNCHANGED <<rroot, resolving, resolved, rpc, rerr, rret>>
  ELSE
    LET target_path == parse_override_path(expression) IN
    IF ~target_path.ok THEN RThrow(target_path.err, expression)
    ELSE IF ~find_path(rroot, target_path.components).found
      THEN RThrow("NotFound", expression)
    ELSE /\ rstack' =
              Append(RSetTop([f EXCEPT !.phase = "ref",
                                       !.target = target_path.components]),
                     NodeFrame(target_path.components))
         /\ UNCHANGED <<rroot, resolving, resolved, rpc, rerr, rret>>

\* Lines 131-147: one turn of resolve_string's loop, or its return.
ResolveScan ==
  /\ RRunning("string", "scan")
  /\ LET f == RTop
         start == find(f.value, PlaceholderOpen, f.pos)
     IN
     IF f.pos >= Len(f.value) \/ start = npos(f.value)
       THEN /\ rret' = f.result \o substr_from(f.value, f.pos)
            /\ rstack' = RPop
            /\ UNCHANGED <<rroot, resolving, resolved, rpc, rerr>>
       ELSE
         LET end == find(f.value, PlaceholderClose,
                         start + Len(PlaceholderOpen))
             expr == substr(f.value, start + Len(PlaceholderOpen),
                            end - (start + Len(PlaceholderOpen)))
         IN
         IF end = npos(f.value) THEN RThrow("Unterminated", f.value)
         ELSE ResolveExpression(
                [f EXCEPT !.result = @ \o substr(f.value, f.pos, start - f.pos),
                          !.pos = end + 1],
                expr)
  /\ UNCHANGED <<rorig, renv>>

\* Line 121: resolve_node on the target has returned; its string form is
\* appended.
ResolveRef ==
  /\ RRunning("string", "ref")
  /\ LET text == node_to_string(find_path(rroot, RTop.target).node) IN
     IF text.ok
       THEN /\ rstack' = RSetTop([RTop EXCEPT !.result = @ \o text.s,
                                              !.phase = "scan"])
            /\ UNCHANGED <<rroot, resolving, resolved, rpc, rerr, rret>>
       ELSE RThrow("ComplexNode", join_path(RTop.target))
  /\ UNCHANGED <<rorig, renv>>

\* Line 97: resolve_string on the fallback has returned; its value is the
\* value of the oc.env expression.
ResolveEnv ==
  /\ RRunning("string", "env")
  /\ rstack' = RSetTop([RTop EXCEPT !.result = @ \o rret, !.phase = "scan"])
  /\ UNCHANGED <<rroot, rorig, renv, resolving, resolved, rpc, rerr, rret>>

ResolveStep ==
  \/ ResolveEnter \/ ResolveChild \/ ResolveAssign \/ ResolveExit
  \/ ResolveScan \/ ResolveRef \/ ResolveEnv

\* The path of the string node whose value this step hands to
\* resolve_string (line 179), if it does.
ScanStarted ==
  IF /\ RTop.kind = "node" /\ Len(rstack') = Len(rstack) + 1
     /\ rstack'[Len(rstack')].kind = "string"
    THEN <<RTop.path>>
    ELSE <<>>

ResolveNext ==
  /\ ResolveStep
  /\ rsteps' = rsteps + 1
  /\ rscans' = rscans \o ScanStarted
  /\ UNCHANGED <<assignVars, mergeVars, loadVars, textVars, apiVars>>

ResolveEnded == rpc \in {"done", "failed"}

-----------------------------------------------------------------------------
(* The trees and environments resolve_interpolations is run on: a root     *)
(* mapping with the keys a, b, c and the dotted key 'a.b'.                  *)

Kc == <<"c">>
Kab == <<"a", ".", "b">>
KV == <<"V">>
X == <<"x">>

Ref(expression) == PlaceholderOpen \o expression \o PlaceholderClose

RefA == Ref(Ka)
RefB == Ref(Kb)
RefC == Ref(Kc)
RefAthenB == Ref(Kab)                       \* ${a.b}: key b below key a
RefDotted == Ref(<<"a", "\\", ".", "b">>)   \* ${a\.b}: the key 'a.b'
RefMissing == Ref(<<"z", "z">>)
RefBoth == RefA \o <<"/">> \o RefB          \* ${a}/${b}
Unterminated == PlaceholderOpen \o Ka
EnvWithFallback == Ref(EnvPrefix \o KV \o <<",", "w">>)
EnvAlone == Ref(EnvPrefix \o KV)
NowYear == Ref(NowPrefix \o <<"%", "Y">>)
NowEmpty == Ref(NowPrefix)
EnvFallbackRef == Ref(EnvPrefix \o KV \o <<",">> \o RefB)   \* ${oc.env:V,${b}}
EnvFallbackNow == Ref(EnvPrefix \o KV \o <<",">> \o NowYear)

Strings(texts) == {make_string(t) : t \in texts}

ValuesA ==
  Strings({X, RefB, RefA, RefC, EnvWithFallback})
    \cup {make_map(Kb :> v) : v \in Strings({X, RefB, RefDotted})}

ValuesB ==
  Strings({X, RefA, RefAthenB, RefMissing, Unterminated, NowYear})
    \cup {make_int(7), make_bool(FALSE), make_null,
          make_seq(<<make_string(RefA), make_bool(TRUE)>>)}

ValuesC ==
  {Absent} \cup Strings({RefBoth, RefB, RefDotted, EnvAlone, NowEmpty,
                         EnvFallbackRef, EnvFallbackNow})

ValuesAB == {Absent} \cup Strings({X, RefB, RefDotted, RefMissing})

Tree(a, b, c, ab) ==
  LET all == (Ka :> a) @@ (Kb :> b) @@ (Kc :> c) @@ (Kab :> ab)
  IN  make_map([k \in {x \in DOMAIN all : all[x] # Absent} |-> all[k]])

ResolveTrees ==
  {Tree(a, b, c, ab) :
     a \in ValuesA, b \in ValuesB, c \in ValuesC, ab \in ValuesAB}

Environments ==
  {<<>>, KV :> <<"e">>, KV :> <<>>, KV :> <<"7">>, KV :> RefB}

\* Lines 189-193: both sets empty, resolve_node called on the root.
ResolveInit ==
  /\ rroot \in ResolveTrees
  /\ rorig = rroot
  /\ renv \in Environments
  /\ resolving = {} /\ resolved = {}
  /\ rstack = <<NodeFrame(<<>>)>>
  /\ rpc = "run" /\ rerr = NoFault /\ rret = <<>> /\ rsteps = 0
  /\ rscans = <<>>
  /\ AssignIdle /\ MergeIdle /\ LoadIdle /\ TextIdle /\ ApiIdle

SpecResolve == ResolveInit /\ [][ResolveNext]_vars

-----------------------------------------------------------------------------
(* Claims about resolve_interpolations (SpecResolve).                      *)

\* The paths of the string nodes of a tree.
RECURSIVE StringPaths(_, _)
StringPaths(node, path) ==
  IF is_string(node) THEN {path}
  ELSE IF is_mapping(node)
    THEN UNION {StringPaths(node.m[k], Append(path, k)) : k \in DOMAIN node.m}
  ELSE IF is_sequence(node)
    THEN UNION {StringPaths(node.q[i], Append(path, to_string(i - 1))) :
                  i \in 1..Len(node.q)}
  ELSE {}

\* The expressions of the terminated placeholders of a text, left to right.
RECURSIVE Expressions(_, _)
Expressions(value, pos) ==
  LET start == find(value, PlaceholderOpen, pos)
      end == find(value, PlaceholderClose, start + Len(PlaceholderOpen))
  IN  IF pos >= Len(value) \/ start = npos(value) \/ end = npos(value)
        THEN <<>>
      ELSE <<substr(value, start + Len(PlaceholderOpen),
                    end - (start + Len(PlaceholderOpen)))>>
             \o Expressions(value, end + 1)

\* The text has an opened placeholder that is never closed.
HasUnterminated(value) ==
  \E start \in 0..(Len(value) - 1) :
    /\ find(value, PlaceholderOpen, start) = start
    /\ find(value, PlaceholderClose, start) = npos(value)

IsReference(expression) ==
  ~starts_with(expression, NowPrefix) /\ ~starts_with(expression, EnvPrefix)

\* Every placeholder of the text is a terminated reference placeholder.
PureReferences(value) ==
  /\ ~HasUnterminated(value)
  /\ \A e \in Range(Expressions(value, 0)) : IsReference(e)

\* The node a reference expression names in a tree, if there is one.
Referent(tree, expression) ==
  LET p == parse_override_path(expression)
  IN  IF p.ok THEN find_path(tree, p.components) ELSE NotFound

\* The text with every reference placeholder replaced by the string form
\* of the node it names in tree.
RECURSIVE Substituted(_, _, _)
Substituted(value, pos, tree) ==
  LET start == find(value, PlaceholderOpen, pos)
      end == find(value, PlaceholderClose, start + Len(PlaceholderOpen))
      expr == substr(value, start + Len(PlaceholderOpen),
                     end - (start + Len(PlaceholderOpen)))
  IN  IF pos >= Len(value) \/ start = npos(value) \/ end = npos(value)
        THEN substr_from(value, pos)
      ELSE substr(value, pos, start - pos)
             \o node_to_string(Referent(tree, expr).node).s
             \o Substituted(value, end + 1, tree)

\* C8: after resolve_interpolations has succeeded, every string node whose
\* placeholders are references holds its original text with each ${p}
\* replaced by the string form of the final value of the node at p, in
\* whatever order the nodes were visited; with a = "${b}" and b = "x" the
\* node "${a}/${b}" holds "x/x".
C8_FinalValues ==
  rpc = "done" =>
    /\ \A P \in StringPaths(rorig, <<>>) :
         LET text == node_at(rorig, P, 1).s IN
         PureReferences(text) =>
           /\ \A e \in Range(Expressions(text, 0)) :
                /\ Referent(rroot, e).found
                /\ node_to_string(Referent(rroot, e).node).ok
           /\ node_at(rroot, P, 1) = make_string(Substituted(text, 0, rroot))
    /\ (/\ rorig.m[Ka] = make_string(RefB) /\ rorig.m[Kb] = make_string(X)
        /\ Kc \in DOMAIN rorig.m /\ rorig.m[Kc] = make_string(RefBoth))
         => rroot.m[Kc] = make_string(<<"x", "/", "x">>)

\* The paths of all nodes of a tree.
RECURSIVE NodePaths(_, _)
NodePaths(node, path) ==
  {path} \cup
  (IF is_mapping(node)
     THEN UNION {NodePaths(node.m[k], Append(path, k)) : k \in DOMAIN node.m}
   ELSE IF is_sequence(node)
     THEN UNION {NodePaths(node.q[i], Append(path, to_string(i - 1))) :
                   i \in 1..Len(node.q)}
   ELSE {})

\* The nodes the references of a text name in a tree.
Referents(tree, text) ==
  {parse_override_path(e).components :
     e \in {x \in Range(Expressions(text, 0)) :
              IsReference(x) /\ Referent(tree, x).found}}

\* The string nodes the references of the string node at P name.
RefTargets(tree, P) ==
  {Q \in Referents(tree, node_at(tree, P, 1).s) :
     is_string(node_at(tree, Q, 1))}

\* The nodes whose resolution the resolution of the node at P asks for: a
\* container's children, a string's referents.
Needs(tree, P) ==
  LET node == node_at(tree, P, 1) IN
  IF is_string(node) THEN Referents(tree, node.s)
  ELSE {Q \in NodePaths(tree, <<>>) :
          Len(Q) = Len(P) + 1 /\ SubSeq(Q, 1, Len(P)) = P}

RECURSIVE RefClosure(_, _, _)
RefClosure(tree, set, n) ==
  IF n = 0 THEN set
  ELSE RefClosure(tree,
         set \cup UNION {RefTargets(tree, Q) : Q \in set}, n - 1)

RECURSIVE NeedsClosure(_, _, _)
NeedsClosure(tree, set, n) ==
  IF n = 0 THEN set
  ELSE NeedsClosure(tree,
         set \cup UNION {Needs(tree, Q) : Q \in set}, n - 1)

\* The string nodes that reach themselves along references.
OnCycle(tree) ==
  {P \in StringPaths(tree, <<>>) :
     P \in RefClosure(tree, RefTargets(tree, P),
                      Cardinality(StringPaths(tree, <<>>)))}

\* The nodes whose resolution asks for itself, through references and
\* through the children of the containers referred to.
NeedsItself(tree) ==
  {P \in NodePaths(tree, <<>>) :
     P \in NeedsClosure(tree, Needs(tree, P),
                        Cardinality(NodePaths(tree, <<>>)))}

\* C9: when the references among the string nodes form a cycle, the pass
\* does not return a tree: it fails, and a cycle error names a node that
\* lies on a cycle.  (An earlier fault of another kind may end the pass
\* first, and the cycle named may pass through a container.)
C9_CycleRejected ==
  (ResolveEnded /\ OnCycle(rorig) # {}) =>
    /\ rpc = "failed"
    /\ rerr.kind = "Cycle" =>
         rerr.text \in {join_path(P) : P \in NeedsItself(rorig)}

-----------------------------------------------------------------------------
(* Termination of the two recursive algorithms: either operation, run from *)
(* its call to its end.  The code runs in one thread and to completion, so *)
(* an operation ends when the number of steps it can take is bounded.      *)

TermInit == LoadInit \/ ResolveInit
TermNext == LoadNext \/ ResolveNext
TermEnded == LoadEnded \/ ResolveEnded

SpecTerm == TermInit /\ [][TermNext]_vars

\* The sum of the values of a function with a finite domain.
RECURSIVE SumOf(_)
SumOf(f) ==
  IF DOMAIN f = {} THEN 0
  ELSE LET x == CHOOSE y \in DOMAIN f : TRUE
       IN  f[x] + SumOf([y \in DOMAIN f \ {x} |-> f[y]])

RECURSIVE Power(_, _)
Power(base, n) == IF n = 0 THEN 1 ELSE base * Power(base, n - 1)

Max(set) == CHOOSE x \in set : \A y \in set : y <= x

\* The steps a pass over the tree can take: the calls of resolve_node are
\* one per node and one per placeholder at most, and each call, each string
\* and each placeholder costs a fixed number of steps.
PlaceholderCount(tree) ==
  SumOf([P \in StringPaths(tree, <<>>) |->
           Len(Expressions(node_at(tree, P, 1).s, 0))])

ResolveStepBound(tree) ==
  5 * (Cardinality(NodePaths(tree, <<>>)) + PlaceholderCount(tree))

\* The steps a load can take: an include chain holds every file once at
\* most, a call makes one call per defaults entry at most, and a call with
\* n entries takes 3 + 2n steps at most.
LongestDefaults(files) ==
  Max({0} \cup {Len(DefaultsOf(files, p)) : p \in DOMAIN files})

LoadCallBound(files) ==
  SumOf([d \in 0..Cardinality(DOMAIN files) |->
           Power(LongestDefaults(files), d)])

LoadStepBound(files) ==
  (3 + 2 * LongestDefaults(files)) * LoadCallBound(files) + 1

\* The step the operation stands at is one of its steps.
LoadCanStep == lpc \in {"call", "parse", "entries", "return"}
ResolveCanStep == rpc = "run" /\ rstack # <<>>

\* A resolve_node call is being entered on a key that is in resolving.
EntersInProgress ==
  /\ RRunning("node", "enter")
  /\ join_path(RTop.path) \in resolving \ resolved

\* A load_with_includes call is being entered on a path that is in the stack.
IncludesInProgress == lpc = "call" /\ normalize_path(lcallee) \in lstack

\* C10: load_yaml_file and resolve_interpolations terminate, with a result
\* or with an error: the steps and the depth of the recursion are bounded
\* by the files, or by the tree, the operation is never stuck before its
\* end, and a call on a file or a node whose own call is still in progress
\* ends the operation in the error instead of recursing.
C10_Terminates ==
  /\ [](/\ lsteps <= LoadStepBound(fs)
        /\ rsteps <= ResolveStepBound(rorig)
        /\ Len(frames) <= Cardinality(DOMAIN fs) + 1
        /\ Len(rstack) <= 3 * Cardinality(NodePaths(rorig, <<>>))
        /\ TermEnded \/ LoadCanStep \/ ResolveCanStep)
  /\ [][/\ EntersInProgress => (rpc' = "failed" /\ rerr'.kind = "Cycle")
        /\ IncludesInProgress =>
             (lpc' = "failed" /\ lerr'.kind = "RecursiveInclude")
        /\ lsteps' + rsteps' = lsteps + rsteps + 1]_vars

\* C10 witness: a is "${b}" and b is "${a}"; the pass has ended in the cycle
\* error with the calls on a and on b still open.
C10_Witness ==
  /\ rpc = "failed" /\ rerr = [kind |-> "Cycle", text |-> Ka]
  /\ rorig.m[Ka] = make_string(RefB) /\ rorig.m[Kb] = make_string(RefA)
  /\ resolving = {RootKey, Ka, Kb}

-----------------------------------------------------------------------------
(* Claims about the oc.env expression (SpecResolve).                       *)

\* The text is one oc.env placeholder and nothing else.
IsEnvOnly(text) ==
  /\ starts_with(text, PlaceholderOpen \o EnvPrefix)
  /\ find(text, PlaceholderClose, 0) = Len(text) - 1

\* The name and the fallback of an oc.env placeholder, as the text gives
\* them: the name up to the first comma, the fallback after it, both
\* without the blanks around them.
EnvBody(text) ==
  SubSeq(text, Len(PlaceholderOpen \o EnvPrefix) + 1, Len(text) - 1)
EnvName(text) ==
  trim_copy(substr(EnvBody(text), 0, find(EnvBody(text), Comma, 0)))
EnvFallback(text) ==
  IF find(EnvBody(text), Comma, 0) = npos(EnvBody(text)) THEN <<>>
  ELSE trim_copy(substr_from(EnvBody(text), find(EnvBody(text), Comma, 0) + 1))

\* The variable is unset or set to the empty string.
EnvAbsent(env, name) == name \notin DOMAIN env \/ env[name] = <<>>

\* C11: after a successful pass a string node that was one oc.env
\* placeholder with a literal fallback, or with none, is a string node
\* holding the variable's raw value when the variable is set and non-empty,
\* the fallback when the variable is unset or empty, and the empty string
\* when it is unset or empty and there is no fallback.
C11_EnvValue ==
  rpc = "done" =>
    \A P \in StringPaths(rorig, <<>>) :
      LET text == node_at(rorig, P, 1).s IN
      (/\ IsEnvOnly(text)
       /\ find(EnvFallback(text), PlaceholderOpen, 0)
            = npos(EnvFallback(text))) =>
        /\ is_string(node_at(rroot, P, 1))
        /\ node_at(rroot, P, 1).s =
             IF ~EnvAbsent(renv, EnvName(text)) THEN renv[EnvName(text)]
             ELSE EnvFallback(text)

\* C11 witness: V is set to "7", a was ${oc.env:V,w} and is the string "7",
\* and c was ${oc.env:V} and is the string "7" as well.
C11_Witness ==
  /\ rpc = "done"
  /\ renv = (KV :> <<"7">>)
  /\ rorig.m[Ka] = make_string(EnvWithFallback)
  /\ rroot.m[Ka] = make_string(<<"7">>)
  /\ Kc \in DOMAIN rorig.m /\ rorig.m[Kc] = make_string(EnvAlone)
  /\ rroot.m[Kc] = make_string(<<"7">>)

\* Every node of the tree but the one at P is a scalar without placeholder.
OthersPlain(tree, P) ==
  \A Q \in NodePaths(tree, <<>>) \ {<<>>, P} :
    LET node == node_at(tree, Q, 1) IN
    /\ ~is_mapping(node) /\ ~is_sequence(node)
    /\ is_string(node) =>
         find(node.s, PlaceholderOpen, 0) = npos(node.s)

\* C12: with the variable absent, a fallback that is a reference or a now:
\* expression is evaluated: the pass over a tree that is plain but for the
\* node ${oc.env:V,${b}} (or ${oc.env:V,${now:%Y}}) succeeds, and the node
\* holds the string form of b (or the year).
C12_FallbackResolved ==
  \A P \in StringPaths(rorig, <<>>) :
    LET text == node_at(rorig, P, 1).s IN
    (/\ ResolveEnded
     /\ text \in {EnvFallbackRef, EnvFallbackNow}
     /\ EnvAbsent(renv, KV)
     /\ OthersPlain(rorig, P)) =>
      /\ rpc = "done"
      /\ node_at(rroot, P, 1).s \in
           IF text = EnvFallbackRef
             THEN {node_to_string(rroot.m[Kb]).s}
             ELSE {tm.year : tm \in Clocks}

-----------------------------------------------------------------------------
(* Claims about the targets of references (SpecResolve).                   *)

\* The text form the claim gives a scalar target.
TextForm(node) ==
  IF is_int(node) /\ node.i = 7 THEN <<"7">>
  ELSE IF is_bool(node)
    THEN (IF node.b THEN <<"t", "r", "u", "e">> ELSE <<"f", "a", "l", "s", "e">>)
  ELSE <<"n", "u", "l", "l">>

\* C13: a pass that succeeds has left no reference to a sequence or a
\* mapping, no reference to a missing path and no unterminated '${' behind:
\* each of them makes the pass fail; and a node that was one reference to
\* an int, a bool or a null holds the target's text form.
C13_ScalarOrError ==
  rpc = "done" =>
    \A P \in StringPaths(rorig, <<>>) :
      LET text == node_at(rorig, P, 1).s IN
      /\ ~HasUnterminated(text)
      /\ \A e \in Range(Expressions(text, 0)) :
           IsReference(e) =>
             /\ Referent(rorig, e).found
             /\ ~is_mapping(Referent(rorig, e).node)
             /\ ~is_sequence(Referent(rorig, e).node)
             /\ (/\ text = Ref(e)
                 /\ ~is_string(Referent(rorig, e).node)) =>
                  node_at(rroot, P, 1) =
                    make_string(TextForm(Referent(rorig, e).node))

-----------------------------------------------------------------------------
(* Claims about a failed assign_path (SpecAssign).                         *)

\* C20: a call of assign_path that throws leaves the tree as it was before
\* the call, whatever the root was (mapping, null or another variant): no
\* intermediate mapping is created, no value replaced, and the root keeps
\* its variant.
C20_FailureLeavesTree ==
  (last.called /\ ~last.ok) => cfg = last.before

-----------------------------------------------------------------------------
(* Claims about repeated and grouped merges.                               *)

\* C18: merging the same source into the destination a second time changes
\* nothing: merge(merge(A, B), B) = merge(A, B) for every pair of trees.
C18_MergeIdempotent ==
  mpc = "again" => mdst = mdst0

\* C18 witness: the second merge ran on two mappings whose shared key holds a
\* mapping in both and whose first merge changed the destination.
C18_Witness ==
  /\ mpc = "again" /\ is_mapping(mdst) /\ is_mapping(msrc)
  /\ Ka \in DOMAIN mdst.m /\ Ka \in DOMAIN msrc.m
  /\ is_mapping(mdst.m[Ka]) /\ is_mapping(msrc.m[Ka])
  /\ mdst.m[Ka] # msrc.m[Ka]
  /\ Kb \in DOMAIN mdst.m /\ Kb \in DOMAIN msrc.m
  /\ is_sequence(msrc.m[Kb])

-----------------------------------------------------------------------------
(* Driver 5: three mappings merged in both groupings with merged(), which  *)
(* leaves its arguments alone.                                             *)

merged(base, override_node) == merge(deep_copy(base), override_node)

GroupLeaves == {make_null, make_int(1), make_seq(<<make_int(2)>>)}

GroupInner ==
  {make_mapping, make_map(Ka :> make_int(1)), make_map(Ka :> make_int(2)),
   make_map(Kb :> make_int(1))}

\* Mappings with any value at key a and, possibly, an int at key b.
GroupTrees ==
  {make_map(m) : m \in
     {f \in MapsOver({Ka, Kb}, GroupLeaves \cup GroupInner) :
        Kb \in DOMAIN f => f[Kb] = make_int(1)}}

MergedInit ==
  /\ ta \in GroupTrees /\ tb \in GroupTrees /\ tc \in GroupTrees
  /\ tleft = make_null /\ tright = make_null /\ tpc = {}
  /\ AssignIdle /\ MergeIdle /\ LoadIdle /\ ResolveIdle
  /\ OverrideIdle /\ PathIdle /\ YamlIdle /\ ApiIdle

GroupLeft ==
  /\ "left" \notin tpc
  /\ tleft' = merged(merged(ta, tb), tc)
  /\ tpc' = tpc \cup {"left"}
  /\ UNCHANGED <<ta, tb, tc, tright>>

GroupRight ==
  /\ "right" \notin tpc
  /\ tright' = merged(ta, merged(tb, tc))
  /\ tpc' = tpc \cup {"right"}
  /\ UNCHANGED <<ta, tb, tc, tleft>>

MergedNext ==
  /\ (GroupLeft \/ GroupRight)
  /\ UNCHANGED <<assignVars, mergeVars, loadVars, resolveVars,
                 overrideVars, pathVars, yamlVars, apiVars>>

SpecMerged == MergedInit /\ [][MergedNext]_vars

RECURSIVE SameKind(_, _)
SameKind(x, y) ==
  IF is_mapping(x) /\ is_mapping(y)
    THEN \A k \in (DOMAIN x.m) \cap (DOMAIN y.m) : SameKind(x.m[k], y.m[k])
    ELSE ~is_mapping(x) /\ ~is_mapping(y)

-----------------------------------------------------------------------------
(* Scalars read from YAML text (yaml_loader.cpp): interpret_scalar and the *)
(* literal tests it relies on.  A double node keeps the decimal number its  *)
(* literal denotes, mant * 10^exp10 with mant free of trailing zeros.       *)

isdigit(ch) == ch \in {"0", "1", "2", "3", "4", "5", "6", "7", "8", "9"}

UpperCase ==
  <<"A", "B", "C", "D", "E", "F", "G", "H", "I", "J", "K", "L", "M",
    "N", "O", "P", "Q", "R", "S", "T", "U", "V", "W", "X", "Y", "Z">>

LowerCase ==
  <<"a", "b", "c", "d", "e", "f", "g", "h", "i", "j", "k", "l", "m",
    "n", "o", "p", "q", "r", "s", "t", "u", "v", "w", "x", "y", "z">>

tolower(ch) ==
  IF \E i \in 1..Len(UpperCase) : UpperCase[i] = ch
    THEN LowerCase[CHOOSE i \in 1..Len(UpperCase) : UpperCase[i] = ch]
    ELSE ch

to_lower(text) == [i \in 1..Len(text) |-> tolower(text[i])]

is_integer_literal(text) ==
  IF text = <<>> THEN FALSE
  ELSE
    LET pos == IF text[1] \in {"-", "+"} THEN 1 ELSE 0 IN
    IF pos >= Len(text) THEN FALSE
    ELSE IF text[pos + 1] = "0" /\ Len(text) > pos + 1 THEN FALSE
    ELSE \A i \in (pos + 1)..Len(text) : isdigit(text[i])

RECURSIVE float_scan(_, _, _, _, _)
float_scan(text, pos, has_digit, has_dot, has_exp) ==
  IF pos >= Len(text) THEN has_digit /\ (has_dot \/ has_exp)
  ELSE
    LET ch == text[pos + 1] IN
    IF isdigit(ch) THEN float_scan(text, pos + 1, TRUE, has_dot, has_exp)
    ELSE IF ch = "." THEN
      IF has_dot \/ has_exp THEN FALSE
      ELSE float_scan(text, pos + 1, has_digit, TRUE, has_exp)
    ELSE IF ch \in {"e", "E"} THEN
      IF has_exp \/ ~has_digit THEN FALSE
      ELSE
        LET signed == pos + 1 < Len(text) /\ text[pos + 2] \in {"+", "-"}
        IN  float_scan(text, IF signed THEN pos + 2 ELSE pos + 1,
                       FALSE, has_dot, TRUE)
    ELSE FALSE

is_float_literal(text) ==
  IF text = <<>> THEN FALSE
  ELSE
    LET pos == IF text[1] \in {"-", "+"} THEN 1 ELSE 0 IN
    IF pos >= Len(text) THEN FALSE
    ELSE float_scan(text, pos, FALSE, FALSE, FALSE)

DigitValue(ch) == (CHOOSE i \in 1..Len(DecimalDigits) : DecimalDigits[i] = ch) - 1

\* The number a run of decimal digits denotes.
RECURSIVE digits_value(_)
digits_value(digits) ==
  IF digits = <<>> THEN 0
  ELSE digits_value(SubSeq(digits, 1, Len(digits) - 1)) * Len(DecimalDigits)
         + DigitValue(digits[Len(digits)])

Int64MaxDigits ==
  <<"9", "2", "2", "3", "3", "7", "2", "0", "3", "6", "8", "5", "4", "7", "7",
    "5", "8", "0", "7">>

Int64MinDigits ==
  <<"9", "2", "2", "3", "3", "7", "2", "0", "3", "6", "8", "5", "4", "7", "7",
    "5", "8", "0", "8">>

\* std::stoll on an integer literal: out_of_range beyond the int64 range.
stoll(text) ==
  LET negative == text[1] = "-"
      digits == IF text[1] \in {"-", "+"} THEN Tail(text) ELSE text
      limit == IF negative THEN Int64MinDigits ELSE Int64MaxDigits
  IN  IF \/ Len(digits) > Len(limit)
         \/ Len(digits) = Len(limit) /\ StrLess(limit, digits)
        THEN [ok |-> FALSE]
        ELSE [ok |-> TRUE,
              value |-> IF negative THEN -digits_value(digits)
                        ELSE digits_value(digits)]

make_double(mant, exp10) == [t |-> "double", mant |-> mant, exp10 |-> exp10]
is_double(node) == node.t = "double"

\* mant * 10^exp10 with the trailing zeros of mant moved into the exponent.
RECURSIVE normal_double(_, _)
normal_double(mant, exp10) ==
  IF mant = 0 THEN make_double(0, 0)
  ELSE IF mant % Len(DecimalDigits) = 0
    THEN normal_double(mant \div Len(DecimalDigits), exp10 + 1)
  ELSE make_double(mant, exp10)

\* std::stod on a float literal (literals within the range of a double):
\* sign, digits, '.', digits, and an exponent.
stod(text) ==
  LET negative == text[1] = "-"
      body == IF text[1] \in {"-", "+"} THEN Tail(text) ELSE text
      epos == IF find(body, <<"e">>, 0) # npos(body)
                THEN find(body, <<"e">>, 0) ELSE find(body, <<"E">>, 0)
      number == substr(body, 0, epos)
      exptext == substr_from(body, epos + 1)
      dot == find(number, <<".">>, 0)
      whole == substr(number, 0, dot)
      fraction == substr_from(number, dot + 1)
      expsign == exptext # <<>> /\ exptext[1] = "-"
      expdigits == IF exptext # <<>> /\ exptext[1] \in {"-", "+"}
                     THEN Tail(exptext) ELSE exptext
      exponent == IF expsign THEN -digits_value(expdigits)
                  ELSE digits_value(expdigits)
      mant == digits_value(whole \o fraction)
  IN  normal_double(IF negative THEN -mant ELSE mant,
                    exponent - Len(fraction))

KwNull == <<"n", "u", "l", "l">>
KwTilde == <<"~">>
KwTrue == <<"t", "r", "u", "e">>
KwFalse == <<"f", "a", "l", "s", "e">>

\* interpret_scalar: the node a scalar event with this value becomes; the
\* style of the scalar (plain or quoted) plays no part.
interpret_scalar(value) ==
  LET lower == to_lower(value) IN
  IF lower = KwNull \/ lower = KwTilde THEN make_null
  ELSE IF lower = KwTrue THEN make_bool(TRUE)
  ELSE IF lower = KwFalse THEN make_bool(FALSE)
  ELSE IF is_integer_literal(value) /\ stoll(value).ok
    THEN make_int(stoll(value).value)
  ELSE IF is_float_literal(value) THEN stod(value)
  ELSE make_string(value)

-----------------------------------------------------------------------------
(* load_yaml_string (yaml_loader.cpp): libyaml's reading of a document and  *)
(* parse_node / parse_sequence / parse_mapping over its events, for block   *)
(* mappings and sequences, flow sequences, '{}', and plain, single-quoted   *)
(* and double-quoted scalars on one line each.  Positions count from 1.     *)

DoubleQuote == "\""
SingleQuote == "'"

YamlOk(node, next) ==
  [ok |-> TRUE, err |-> "none", node |-> node, next |-> next]
YamlFail(e) == [ok |-> FALSE, err |-> e, node |-> make_null, next |-> 0]

RECURSIVE skip_spaces(_)
skip_spaces(text) ==
  IF text # <<>> /\ Head(text) = " " THEN skip_spaces(Tail(text)) ELSE text

RECURSIVE drop_spaces(_)
drop_spaces(text) ==
  IF text # <<>> /\ text[Len(text)] = " "
    THEN drop_spaces(SubSeq(text, 1, Len(text) - 1))
    ELSE text

\* The first position from i on that holds no space.
RECURSIVE past_spaces(_, _)
past_spaces(text, i) ==
  IF i <= Len(text) /\ text[i] = " " THEN past_spaces(text, i + 1) ELSE i

RECURSIVE split_lines(_, _, _)
split_lines(text, i, current) ==
  IF i > Len(text) THEN (IF current = <<>> THEN <<>> ELSE <<current>>)
  ELSE IF text[i] = "\n"
    THEN <<current>> \o split_lines(text, i + 1, <<>>)
  ELSE split_lines(text, i + 1, Append(current, text[i]))

\* The lines of a document that hold something, each with its indentation.
YamlLines(text) ==
  LET raw == SelectSeq(split_lines(text, 1, <<>>),
                       LAMBDA l : skip_spaces(l) # <<>>)
  IN  [i \in 1..Len(raw) |->
         [indent |-> Len(raw[i]) - Len(skip_spaces(raw[i])),
          text |-> drop_spaces(skip_spaces(raw[i]))]]

Unescape ==
  [ch \in {"\\", "\"", "n", "r", "t"} |->
     CASE ch = "n" -> "\n" [] ch = "r" -> "\r" [] ch = "t" -> "\t"
       [] OTHER -> ch]

\* A double-quoted scalar whose opening quote stands before position i.
RECURSIVE read_quoted(_, _, _)
read_quoted(text, i, acc) ==
  IF i > Len(text) THEN [ok |-> FALSE]
  ELSE IF text[i] = DoubleQuote
    THEN [ok |-> TRUE, value |-> acc, next |-> i + 1]
  ELSE IF text[i] = "\\" THEN
    IF i = Len(text) \/ text[i + 1] \notin DOMAIN Unescape
      THEN [ok |-> FALSE]
      ELSE read_quoted(text, i + 2, Append(acc, Unescape[text[i + 1]]))
  ELSE read_quoted(text, i + 1, Append(acc, text[i]))

\* A single-quoted scalar whose opening quote stands before position i.
RECURSIVE read_single(_, _, _)
read_single(text, i, acc) ==
  IF i > Len(text) THEN [ok |-> FALSE]
  ELSE IF text[i] = SingleQuote THEN
    IF i < Len(text) /\ text[i + 1] = SingleQuote
      THEN read_single(text, i + 2, Append(acc, SingleQuote))
      ELSE [ok |-> TRUE, value |-> acc, next |-> i + 1]
  ELSE read_single(text, i + 1, Append(acc, text[i]))

\* The first ':' from i on that a space or the end of the line follows;
\* 0 when there is none.
RECURSIVE key_colon(_, _)
key_colon(text, i) ==
  IF i > Len(text) THEN 0
  ELSE IF text[i] = ":" /\ (i = Len(text) \/ text[i + 1] = " ") THEN i
  ELSE key_colon(text, i + 1)

NotKey == [iskey |-> FALSE]

\* A quoted key: a ':' follows the closing quote, then a space or the end.
key_after(key, after) ==
  IF after # <<>> /\ after[1] = ":" /\ (Len(after) = 1 \/ after[2] = " ")
    THEN [iskey |-> TRUE, key |-> key, rest |-> skip_spaces(Tail(after))]
    ELSE NotKey

quoted_key(text, q) ==
  IF ~q.ok THEN NotKey
  ELSE key_after(q.value, skip_spaces(SubSeq(text, q.next, Len(text))))

\* A plain key: the text before the ':' at position c.
plain_key(text, c) ==
  IF c = 0 THEN NotKey
  ELSE [iskey |-> TRUE, key |-> drop_spaces(SubSeq(text, 1, c - 1)),
        rest |-> skip_spaces(SubSeq(text, c + 1, Len(text)))]

\* A line "key: rest" split into the key's value and the rest.
KeyOf(text) ==
  IF text = <<>> THEN NotKey
  ELSE IF text[1] = DoubleQuote
    THEN quoted_key(text, read_quoted(text, 2, <<>>))
  ELSE IF text[1] = SingleQuote
    THEN quoted_key(text, read_single(text, 2, <<>>))
  ELSE IF text[1] \in {"[", "{"} THEN NotKey
  ELSE plain_key(text, key_colon(text, 1))

IsEntry(text) == text = <<"-">> \/ starts_with(text, <<"-", " ">>)

\* The characters no plain scalar starts with.
Indicators ==
  {SingleQuote, "&", "*", "!", "|", ">", "%", "@", "]", "}", ",", "#"}

\* Where a plain scalar that starts at i ends: in a flow collection at the
\* next flow indicator, else at a comment or the end of the line; 0 when a
\* ": " follows first.
RECURSIVE plain_end(_, _, _)
plain_end(text, i, inflow) ==
  IF i > Len(text) THEN i
  ELSE IF inflow /\ text[i] \in {",", "]", "}", "[", "{"} THEN i
  ELSE IF text[i] = ":" /\ (i = Len(text) \/ text[i + 1] = " ") THEN 0
  ELSE IF text[i] = " " /\ i < Len(text) /\ text[i + 1] = "#" THEN i
  ELSE plain_end(text, i + 1, inflow)

\* The scalar events: a quoted scalar as read, a plain scalar from i to e.
quoted_scalar(q) ==
  IF q.ok THEN YamlOk(interpret_scalar(q.value), q.next)
  ELSE YamlFail("YamlError")

plain_scalar(text, i, e) ==
  IF e = 0 THEN YamlFail("YamlError")
  ELSE YamlOk(interpret_scalar(drop_spaces(SubSeq(text, i, e - 1))), e)

\* '{' at position i - 1: only the empty mapping "{}" is read.
empty_mapping(text, j) ==
  IF j <= Len(text) /\ text[j] = "}" THEN YamlOk(make_mapping, j + 1)
  ELSE YamlFail("YamlError")

RECURSIVE flow_seq(_, _, _)

\* parse_node on the node that starts at position i of a line.
flow_at(text, i, inflow) ==
  IF i > Len(text) THEN YamlFail("YamlError")
  ELSE IF text[i] = "[" THEN flow_seq(text, i + 1, <<>>)
  ELSE IF text[i] = "{" THEN empty_mapping(text, past_spaces(text, i + 1))
  ELSE IF text[i] = DoubleQuote
    THEN quoted_scalar(read_quoted(text, i + 1, <<>>))
  ELSE IF text[i] = SingleQuote
    THEN quoted_scalar(read_single(text, i + 1, <<>>))
  ELSE IF text[i] \in Indicators \/ IsEntry(SubSeq(text, i, Len(text)))
    THEN YamlFail("YamlError")
  ELSE plain_scalar(text, i, plain_end(text, i, inflow))

flow_node(text, start, inflow) ==
  flow_at(text, past_spaces(text, start), inflow)

\* After an item of a flow sequence: ',' and the next item, or ']'.
flow_seq_sep(text, acc, j) ==
  IF j > Len(text) THEN YamlFail("YamlError")
  ELSE IF text[j] = "," THEN flow_seq(text, j + 1, acc)
  ELSE IF text[j] = "]" THEN YamlOk(make_seq(acc), j + 1)
  ELSE YamlFail("YamlError")

flow_seq_item(text, acc, item) ==
  IF ~item.ok THEN item
  ELSE flow_seq_sep(text, Append(acc, item.node),
                    past_spaces(text, item.next))

flow_seq_at(text, i, acc) ==
  IF i > Len(text) THEN YamlFail("YamlError")
  ELSE IF text[i] = "]" THEN YamlOk(make_seq(acc), i + 1)
  ELSE flow_seq_item(text, acc, flow_at(text, past_spaces(text, i), TRUE))

\* parse_sequence on a flow sequence whose '[' and first items were read.
flow_seq(text, start, acc) == flow_seq_at(text, past_spaces(text, start), acc)

\* Nothing but a comment may follow the node of a line.
inline_tail(text, r, j) ==
  IF j <= Len(text) /\ ~(text[j] = "#" /\ j > r.next)
    THEN YamlFail("YamlError")
    ELSE r

inline_end(text, r) ==
  IF ~r.ok THEN r ELSE inline_tail(text, r, past_spaces(text, r.next))

\* A line that holds one node and, at most, a comment after it.
inline_node(text) == inline_end(text, flow_node(text, 1, FALSE))

\* The node of a line, with the line after it as the next to read.
line_node(r, next) == IF r.ok THEN YamlOk(r.node, next) ELSE r

RECURSIVE block_node(_, _)
RECURSIVE block_sequence(_, _, _, _, _)
RECURSIVE block_mapping(_, _, _, _)

\* Line i with the text after its "- " as a line of its own.
item_lines(lines, i, ind, rest) ==
  [lines EXCEPT ![i] = [indent |-> ind + Len(lines[i].text) - Len(rest),
                        text |-> rest]]

\* The item of the "- rest" entry on line i: the block on the lines below
\* when rest is empty and they are indented further, an empty scalar when
\* they are not, else the node that starts with rest.
sequence_item(lines, i, ind, rest) ==
  IF rest # <<>> THEN block_node(item_lines(lines, i, ind, rest), i)
  ELSE IF i < Len(lines) /\ lines[i + 1].indent > ind
    THEN block_node(lines, i + 1)
  ELSE YamlOk(interpret_scalar(<<>>), i + 1)

sequence_rest(lines, ind, indentless, acc, item) ==
  IF ~item.ok THEN item
  ELSE block_sequence(lines, item.next, ind, indentless,
                      Append(acc, item.node))

\* parse_sequence over the "- item" lines at indentation ind; a sequence
\* that is a mapping value at its key's indentation (indentless) ends at the
\* next key.
block_sequence(lines, i, ind, indentless, acc) ==
  IF i > Len(lines) \/ lines[i].indent < ind THEN YamlOk(make_seq(acc), i)
  ELSE IF lines[i].indent > ind THEN YamlFail("YamlError")
  ELSE IF ~IsEntry(lines[i].text) THEN
    IF indentless THEN YamlOk(make_seq(acc), i) ELSE YamlFail("YamlError")
  ELSE sequence_rest(lines, ind, indentless, acc,
                     sequence_item(lines, i, ind,
                                   skip_spaces(Tail(lines[i].text))))

\* The value of the "key: rest" entry on line i.
mapping_value(lines, i, ind, rest) ==
  IF rest = <<>> THEN
    IF i < Len(lines) /\ lines[i + 1].indent > ind
      THEN block_node(lines, i + 1)
    ELSE IF /\ i < Len(lines) /\ lines[i + 1].indent = ind
            /\ IsEntry(lines[i + 1].text)
      THEN block_sequence(lines, i + 1, ind, TRUE, <<>>)
    ELSE YamlOk(interpret_scalar(<<>>), i + 1)
  ELSE IF IsEntry(rest) \/ KeyOf(rest).iskey THEN YamlFail("YamlError")
  ELSE line_node(inline_node(rest), i + 1)

\* mapping.emplace: of two equal keys the first keeps its value.
mapping_rest(lines, ind, acc, key, value) ==
  IF ~value.ok THEN value
  ELSE block_mapping(lines, value.next, ind,
                     IF key \in DOMAIN acc THEN acc
                     ELSE MapPut(acc, key, value.node))

\* A key that interpret_scalar does not make a string is rejected.
mapping_entry(lines, i, ind, acc, k) ==
  IF ~k.iskey THEN YamlFail("YamlError")
  ELSE IF ~is_string(interpret_scalar(k.key))
    THEN YamlFail("KeysMustBeScalars")
  ELSE mapping_rest(lines, ind, acc, k.key,
                    mapping_value(lines, i, ind, k.rest))

\* parse_mapping over the "key: value" lines at indentation ind.
block_mapping(lines, i, ind, acc) ==
  IF i > Len(lines) \/ lines[i].indent < ind THEN YamlOk(make_map(acc), i)
  ELSE IF lines[i].indent > ind THEN YamlFail("YamlError")
  ELSE mapping_entry(lines, i, ind, acc, KeyOf(lines[i].text))

\* parse_node on the node that starts on line i; next is the first line
\* after it.
block_node(lines, i) ==
  IF IsEntry(lines[i].text)
    THEN block_sequence(lines, i, lines[i].indent, FALSE, <<>>)
  ELSE IF KeyOf(lines[i].text).iskey
    THEN block_mapping(lines, i, lines[i].indent, <<>>)
  ELSE line_node(inline_node(lines[i].text), i + 1)

\* One document holds one root node.
document_end(lines, r) ==
  IF r.ok /\ r.next <= Len(lines) THEN YamlFail("YamlError") ELSE r

document(lines) ==
  IF lines = <<>> THEN YamlOk(make_null, 1)
  ELSE document_end(lines, block_node(lines, 1))

\* parse_stream: an empty stream is null; one document, one root node.
load_yaml_string(content) == document(YamlLines(content))

-----------------------------------------------------------------------------
(* parse_override (src/overrides.cpp).                                     *)

ValueKey == <<"v", "a", "l", "u", "e">>

\* The node at the key "value" of the wrapper document.
value_of(wrapper) ==
  IF ~wrapper.ok THEN wrapper
  ELSE IF ~is_mapping(wrapper.node) THEN YamlFail("UnexpectedStructure")
  ELSE IF ValueKey \notin DOMAIN wrapper.node.m
    THEN YamlFail("MissingValueKey")
  ELSE YamlOk(wrapper.node.m[ValueKey], 0)

\* parse_value_expression: the expression read as the value of a one-line
\* YAML document "value: <expression>".
parse_value_expression(expression) ==
  value_of(load_yaml_string(ValueKey \o <<":", " ">> \o expression
                              \o <<"\n">>))

OverrideError(e) ==
  [called |-> TRUE, ok |-> FALSE, err |-> e, path |-> <<>>,
   value |-> make_null, require_new |-> FALSE]

\* The Override of a path and a value that were both read.
override_of(path, value, require_new) ==
  IF ~path.ok THEN OverrideError(path.err)
  ELSE IF ~value.ok THEN OverrideError(value.err)
  ELSE [called |-> TRUE, ok |-> TRUE, err |-> "none",
        path |-> path.components, value |-> value.node,
        require_new |-> require_new]

\* A mutant of parse_override: an empty value side is read like any other.
parse_override_empty_value(expression) ==
  IF expression = <<>> THEN OverrideError("EmptyExpression")
  ELSE
    LET require_new == Head(expression) = "+"
        working == IF require_new THEN Tail(expression) ELSE expression
        eq_pos == find(working, <<"=">>, 0)
        path_part == substr(working, 0, eq_pos)
        value_part == substr_from(working, eq_pos + 1)
    IN  IF working = <<>> THEN OverrideError("MissingKeyAfterPlus")
        ELSE IF eq_pos = npos(working) THEN OverrideError("MissingEquals")
        ELSE IF path_part = <<>> THEN OverrideError("EmptyKey")
        ELSE override_of(split_path_expression(path_part),
                         parse_value_expression(value_part), require_new)

\* The last position of ch in value, npos when there is none (rfind).
RECURSIVE rfind(_, _, _)
rfind(value, ch, pos) ==
  IF pos < 0 THEN npos(value)
  ELSE IF pos < Len(value) /\ value[pos + 1] = ch THEN pos
  ELSE rfind(value, ch, pos - 1)

\* A mutant of parse_override: the expression is split at its last '='.
parse_override_last_equals(expression) ==
  IF expression = <<>> THEN OverrideError("EmptyExpression")
  ELSE
    LET require_new == Head(expression) = "+"
        working == IF require_new THEN Tail(expression) ELSE expression
        eq_pos == rfind(working, "=", Len(working) - 1)
        path_part == substr(working, 0, eq_pos)
        value_part == substr_from(working, eq_pos + 1)
    IN  IF working = <<>> THEN OverrideError("MissingKeyAfterPlus")
        ELSE IF eq_pos = npos(working) THEN OverrideError("MissingEquals")
        ELSE IF path_part = <<>> THEN OverrideError("EmptyKey")
        ELSE IF value_part = <<>> THEN OverrideError("EmptyValue")
        ELSE override_of(split_path_expression(path_part),
                         parse_value_expression(value_part), require_new)

\* parse_override: the Override returned, or the error thrown.
parse_override(expression) ==
  IF expression = <<>> THEN OverrideError("EmptyExpression")
  ELSE
    LET require_new == Head(expression) = "+"
        working == IF require_new THEN Tail(expression) ELSE expression
        eq_pos == find(working, <<"=">>, 0)
        path_part == substr(working, 0, eq_pos)
        value_part == substr_from(working, eq_pos + 1)
    IN  IF working = <<>> THEN OverrideError("MissingKeyAfterPlus")
        ELSE IF eq_pos = npos(working) THEN OverrideError("MissingEquals")
        ELSE IF path_part = <<>> THEN OverrideError("EmptyKey")
        ELSE IF value_part = <<>> THEN OverrideError("EmptyValue")
        ELSE override_of(split_path_expression(path_part),
                         parse_value_expression(value_part), require_new)

-----------------------------------------------------------------------------
(* Driver 6: one parse_override call on a command-line expression.          *)

Plus == <<"+">>
Equals == <<"=">>

\* Path sides: well formed, empty, and each malformed shape.
PathSides ==
  {<<>>, <<"a">>, <<"a", ".", "b">>, <<"a", "\\", ".", "b">>,
   <<"t", ".", "m", "_", "e">>, <<".", "a">>, <<"a", ".", ".", "b">>,
   <<"a", ".">>, <<"a", "\\">>, <<"a", "\\", "\\">>, <<"a", "\\", ".">>}

Literal42 == <<"4", "2">>
LiteralList == <<"[", "1", ",", "2", ",", "3", "]">>
LiteralDebug == <<"d", "e", "b", "u", "g">>
LiteralAssign == <<"x", "=", "y">>
LiteralHuge ==
  <<"9", "9", "9", "9", "9", "9", "9", "9", "9", "9",
    "9", "9", "9", "9", "9", "9", "9", "9", "9", "9">>

\* Value sides: none at all (no '='), empty, and literals of each kind.
ValueSides ==
  {Equals \o v : v \in
     {<<>>, Literal42, LiteralList, LiteralDebug, LiteralAssign, LiteralHuge,
      KwTrue, KwNull, <<"-", "7">>, <<"1", ".", "5">>, <<"[", "]">>,
      <<"{", "}">>, <<"[", "a", ",", " ", "[", "b", "]", "]">>,
      <<DoubleQuote, "a", " ", "b", DoubleQuote>>}}
    \cup {<<>>}

OverrideExpressions ==
  {plus \o p \o v : plus \in {<<>>, Plus}, p \in PathSides, v \in ValueSides}

OverrideInit ==
  /\ oexpr \in OverrideExpressions
  /\ ores = NoCall
  /\ AssignIdle /\ MergeIdle /\ LoadIdle /\ ResolveIdle
  /\ MergedIdle /\ PathIdle /\ YamlIdle /\ ApiIdle

ParseOverride ==
  /\ ~ores.called
  /\ ores' = parse_override(oexpr)
  /\ UNCHANGED oexpr

OverrideNext ==
  /\ ParseOverride
  /\ UNCHANGED <<assignVars, mergeVars, loadVars, resolveVars,
                 mergedVars, pathVars, yamlVars, apiVars>>

SpecOverride == OverrideInit /\ [][OverrideNext]_vars

-----------------------------------------------------------------------------
(* Claims about parse_override (SpecOverride).                             *)

\* The expression without its leading '+', and its two sides about the
\* first '='.
Working == IF oexpr # <<>> /\ Head(oexpr) = "+" THEN Tail(oexpr) ELSE oexpr
FirstEquals == CHOOSE i \in 1..Len(Working) :
                 Working[i] = "=" /\ \A j \in 1..(i - 1) : Working[j] # "="
HasEquals == \E i \in 1..Len(Working) : Working[i] = "="
PathSide == SubSeq(Working, 1, FirstEquals - 1)
ValueSide == SubSeq(Working, FirstEquals + 1, Len(Working))

\* C14: an accepted expression gives require_new exactly when it starts
\* with '+', the path that the text before the first '=' parses to, and
\* the text after the first '=' read as one literal: 42 is the int 42,
\* [1,2,3] a sequence of three ints, debug the string "debug", and a
\* literal that holds a further '=' stays whole.
C14_OverrideParts ==
  (ores.called /\ ores.ok) =>
    /\ ores.require_new = (Head(oexpr) = "+")
    /\ HasEquals
    /\ parse_override_path(PathSide).ok
    /\ ores.path = parse_override_path(PathSide).components
    /\ ValueSide = Literal42 => ores.value = make_int(42)
    /\ ValueSide = LiteralList =>
         ores.value = make_seq(<<make_int(1), make_int(2), make_int(3)>>)
    /\ ValueSide = LiteralDebug => ores.value = make_string(LiteralDebug)
    /\ ValueSide = LiteralAssign => ores.value = make_string(LiteralAssign)

\* C14 witness: "+a.b=[1,2,3]" was parsed: require_new, the path a, b and
\* a sequence of three.
C14_Witness ==
  /\ oexpr = Plus \o <<"a", ".", "b">> \o Equals \o LiteralList
  /\ ores.called /\ ores.ok /\ ores.require_new
  /\ ores.path = <<Ka, Kb>>
  /\ is_sequence(ores.value) /\ Len(ores.value.q) = 3

\* The character at position i is not escaped: an even number of
\* backslashes stands directly before it.
RECURSIVE Unescaped(_, _)
Unescaped(text, i) ==
  IF i = 1 \/ text[i - 1] # "\\" THEN TRUE
  ELSE ~Unescaped(text, i - 1)

UnescapedDot(text, i) == text[i] = "." /\ Unescaped(text, i)

\* The malformed path sides of the claim.
EmptyComponent(text) ==
  \/ text # <<>> /\ text[1] = "."
  \/ \E i \in 2..Len(text) : UnescapedDot(text, i) /\ UnescapedDot(text, i - 1)
EndsWithDot(text) == text # <<>> /\ UnescapedDot(text, Len(text))
DanglingBackslash(text) ==
  text # <<>> /\ text[Len(text)] = "\\" /\ Unescaped(text, Len(text))

\* C15: parse_override rejects the empty expression, a lone '+', an
\* expression without '=', an empty path side, an empty value side, and a
\* path side with an empty component, a final unescaped '.' or a dangling
\* backslash.
C15_OverrideRejects ==
  ores.called =>
    /\ oexpr = <<>> => (~ores.ok /\ ores.err = "EmptyExpression")
    /\ oexpr = Plus => (~ores.ok /\ ores.err = "MissingKeyAfterPlus")
    /\ (Working # <<>> /\ ~HasEquals) =>
         (~ores.ok /\ ores.err = "MissingEquals")
    /\ HasEquals =>
         /\ PathSide = <<>> => (~ores.ok /\ ores.err = "EmptyKey")
         /\ ValueSide = <<>> => ~ores.ok
         /\ (PathSide # <<>> /\ ValueSide = <<>>) => ores.err = "EmptyValue"
         /\ EmptyComponent(PathSide) => ~ores.ok
         /\ EndsWithDot(PathSide) => ~ores.ok
         /\ DanglingBackslash(PathSide) => ~ores.ok
         /\ (ValueSide # <<>> /\ EmptyComponent(PathSide)) =>
              ores.err = "EmptyComponent"
         /\ (ValueSide # <<>> /\ ~EmptyComponent(PathSide)
               /\ EndsWithDot(PathSide)) => ores.err = "EndsWithDot"
         /\ (ValueSide # <<>> /\ DanglingBackslash(PathSide)) =>
              ores.err = "DanglingEscape"

\* C15 witness: "a\=42", a path side that ends in a dangling backslash,
\* was rejected for it.
C15_Witness ==
  /\ oexpr = <<"a", "\\">> \o Equals \o Literal42
  /\ ores.called /\ ~ores.ok /\ ores.err = "DanglingEscape"

-----------------------------------------------------------------------------
(* Rendering a path (src/c_api.cpp) and Driver 7: a path rendered with     *)
(* build_path_expression, the text parsed back with parse_override_path.   *)

RECURSIVE escape_path_segment(_)

\* A mutant of escape_path_segment: only dots are escaped.
escape_path_segment_dots(value) ==
  IF value = <<>> THEN <<>>
  ELSE (IF Head(value) = "." THEN <<"\\", Head(value)>> ELSE <<Head(value)>>)
         \o escape_path_segment(Tail(value))

escape_path_segment(value) ==
  IF value = <<>> THEN <<>>
  ELSE (IF Head(value) = "." \/ Head(value) = "\\"
          THEN <<"\\", Head(value)>> ELSE <<Head(value)>>)
         \o escape_path_segment(Tail(value))

RECURSIVE build_from(_, _, _)
build_from(components, i, rendered) ==
  IF i > Len(components) THEN rendered
  ELSE build_from(components, i + 1,
                  (IF i = 1 THEN rendered ELSE Append(rendered, "."))
                    \o escape_path_segment(components[i]))

build_path_expression(components) ==
  IF components = <<>> THEN <<>> ELSE build_from(components, 1, <<>>)

MaxSegment == 2
MaxPath == 2

\* Components of up to MaxSegment characters, each a letter, a dot or a
\* backslash; the empty component is among them.
Segments == UNION {[1..n -> {"a", ".", "\\"}] : n \in 0..MaxSegment}

Paths == UNION {[1..n -> Segments] : n \in 0..MaxPath}

PathInit ==
  /\ pcomponents \in Paths
  /\ ptext = <<>> /\ pres = NoCall /\ ppc = "init"
  /\ AssignIdle /\ MergeIdle /\ LoadIdle /\ ResolveIdle
  /\ MergedIdle /\ OverrideIdle /\ YamlIdle /\ ApiIdle

Render ==
  /\ ppc = "init"
  /\ ptext' = build_path_expression(pcomponents)
  /\ ppc' = "rendered"
  /\ UNCHANGED <<pcomponents, pres>>

ParseBack ==
  /\ ppc = "rendered"
  /\ pres' = parse_override_path(ptext)
  /\ ppc' = "parsed"
  /\ UNCHANGED <<pcomponents, ptext>>

PathNext ==
  /\ (Render \/ ParseBack)
  /\ UNCHANGED <<assignVars, mergeVars, loadVars, resolveVars,
                 mergedVars, overrideVars, yamlVars, apiVars>>

SpecPath == PathInit /\ [][PathNext]_vars

\* C16: a path of one or more components, none of them empty, whatever
\* dots and backslashes they hold, comes back from parse_override_path
\* component for component after build_path_expression rendered it.
C16_PathRoundTrip ==
  (/\ ppc = "parsed" /\ pcomponents # <<>>
   /\ \A i \in 1..Len(pcomponents) : pcomponents[i] # <<>>) =>
    /\ pres.ok
    /\ pres.components = pcomponents

\* C16 witness: the path of the components "a." and "\" was rendered as
\* "a\..\\" and parsed back.
C16_Witness ==
  /\ ppc = "parsed"
  /\ pcomponents = << <<"a", ".">>, <<"\\">> >>
  /\ ptext = <<"a", "\\", ".", ".", "\\", "\\">>
  /\ pres.ok /\ pres.components = pcomponents

-----------------------------------------------------------------------------
(* to_yaml_string (src/yaml_emitter.cpp).                                  *)

indentation(indent) == [i \in 1..indent |-> " "]

is_bool_keyword(value) ==
  value \in {KwTrue, <<"T", "r", "u", "e">>, KwFalse,
             <<"F", "a", "l", "s", "e">>}

is_null_keyword(value) ==
  value \in {KwNull, <<"N", "u", "l", "l">>, KwTilde}

\* The first position from i on that holds no character of the set.
RECURSIVE run_end(_, _, _)
run_end(text, i, set) ==
  IF i <= Len(text) /\ text[i] \in set THEN run_end(text, i + 1, set) ELSE i

Digits == {"0", "1", "2", "3", "4", "5", "6", "7", "8", "9"}
HexDigits ==
  Digits \cup {"a", "b", "c", "d", "e", "f", "A", "B", "C", "D", "E", "F"}

\* Where a number of the given digits ends that starts at i: digits with
\* at most one '.', then an exponent when one is complete; i itself when
\* there is no digit.
number_end(text, i, digits, expchars) ==
  LET a == run_end(text, i, digits)
      dotted == a <= Len(text) /\ text[a] = "."
      b == IF dotted THEN run_end(text, a + 1, digits) ELSE a
      count == (a - i) + (IF dotted THEN b - a - 1 ELSE 0)
      c == IF b < Len(text) /\ text[b + 1] \in {"+", "-"} THEN b + 2 ELSE b + 1
      d == run_end(text, c, Digits)
  IN  IF count = 0 THEN i
      ELSE IF b <= Len(text) /\ text[b] \in expchars /\ d > c THEN d
      ELSE b

\* std::strtod: the position after the longest prefix that is a number
\* (leading white space, a sign, then a decimal or hexadecimal number,
\* "inf", "infinity" or "nan"); 1 when there is no such prefix.
strtod_end(value) ==
  LET s == Len(value) - Len(trim_front(value)) + 1
      i == IF s <= Len(value) /\ value[s] \in {"+", "-"} THEN s + 1 ELSE s
      word(n) == to_lower(substr(value, i - 1, n))
      hex == /\ i < Len(value) /\ value[i] = "0" /\ value[i + 1] \in {"x", "X"}
             /\ number_end(value, i + 2, HexDigits, {"p", "P"}) # i + 2
      e == IF hex THEN number_end(value, i + 2, HexDigits, {"p", "P"})
           ELSE IF word(8) = <<"i", "n", "f", "i", "n", "i", "t", "y">>
             THEN i + 8
           ELSE IF word(3) \in {<<"i", "n", "f">>, <<"n", "a", "n">>}
             THEN i + 3
           ELSE number_end(value, i, Digits, {"e", "E"})
  IN  IF e = i THEN 1 ELSE e

looks_like_number(value) ==
  IF value = <<>> THEN FALSE
  ELSE strtod_end(value) # 1 /\ strtod_end(value) = Len(value) + 1

QuotedPunctuation ==
  {":", "#", "&", "*", "?", "|", "-", "<", ">", "=", "!", "%", "@"}

needs_quoting(value, is_key) ==
  IF value = <<>> THEN TRUE
  ELSE IF is_bool_keyword(value) \/ is_null_keyword(value)
          \/ looks_like_number(value) THEN TRUE
  ELSE IF \E i \in 1..Len(value) : value[i] \in QuotedPunctuation THEN TRUE
  ELSE IF Head(value) = "-" \/ Head(value) = " " \/ value[Len(value)] = " "
    THEN TRUE
  ELSE IF \E i \in 1..Len(value) : value[i] \in {"\n", "\t"} THEN TRUE
  ELSE IF is_key /\ \E i \in 1..Len(value) : value[i] = "." THEN TRUE
  ELSE FALSE

RECURSIVE escape_chars(_)
escape_chars(value) ==
  IF value = <<>> THEN <<>>
  ELSE (CASE Head(value) = "\\" -> <<"\\", "\\">>
          [] Head(value) = DoubleQuote -> <<"\\", DoubleQuote>>
          [] Head(value) = "\n" -> <<"\\", "n">>
          [] Head(value) = "\r" -> <<"\\", "r">>
          [] Head(value) = "\t" -> <<"\\", "t">>
          [] OTHER -> <<Head(value)>>)
         \o escape_chars(Tail(value))

escape_string(value) ==
  <<DoubleQuote>> \o escape_chars(value) \o <<DoubleQuote>>

Zeros(n) == [i \in 1..n |-> "0"]

SignificantDigits == 15

\* operator<< on a double with setprecision(15): the shortest decimal form
\* of at most 15 significant digits, in fixed notation while the decimal
\* exponent is between -5 and 15, else in scientific notation.
format_double(node) ==
  LET negative == node.mant < 0
      digits == to_string_digits(IF negative THEN -node.mant ELSE node.mant)
      k == Len(digits)
      exponent == k - 1 + node.exp10
      point == k + node.exp10
      expdigits == to_string_digits(IF exponent < 0 THEN -exponent
                                    ELSE exponent)
      body ==
        IF node.mant = 0 THEN <<"0">>
        ELSE IF exponent < -4 \/ exponent >= SignificantDigits THEN
          <<Head(digits)>>
            \o (IF k > 1 THEN <<".">> \o Tail(digits) ELSE <<>>)
            \o <<"e", IF exponent < 0 THEN "-" ELSE "+">>
            \o (IF Len(expdigits) < 2 THEN <<"0">> ELSE <<>>) \o expdigits
        ELSE IF node.exp10 >= 0 THEN digits \o Zeros(node.exp10)
        ELSE IF point > 0
          THEN SubSeq(digits, 1, point) \o <<".">> \o SubSeq(digits, point + 1, k)
        ELSE <<"0", ".">> \o Zeros(-point) \o digits
  IN  (IF negative THEN <<"-">> ELSE <<>>) \o body

format_scalar(node) ==
  IF is_null(node) THEN KwNull
  ELSE IF is_bool(node) THEN (IF node.b THEN KwTrue ELSE KwFalse)
  ELSE IF is_int(node) THEN to_string(node.i)
  ELSE IF is_double(node) THEN format_double(node)
  ELSE IF needs_quoting(node.s, FALSE) THEN escape_string(node.s)
  ELSE node.s

format_key(key) ==
  IF needs_quoting(key, TRUE) THEN escape_string(key) ELSE key

RECURSIVE emit_node(_, _)

\* What follows a "-" or a "key:": the nested block on lines of its own, or
\* the empty container or the scalar on the same line.
emit_value(value, indent) ==
  IF is_mapping(value) THEN
    IF value.m = <<>> THEN <<" ", "{", "}", "\n">>
    ELSE <<"\n">> \o emit_node(value, indent + 2)
  ELSE IF is_sequence(value) THEN
    IF value.q = <<>> THEN <<" ", "[", "]", "\n">>
    ELSE <<"\n">> \o emit_node(value, indent + 2)
  ELSE <<" ">> \o format_scalar(value) \o <<"\n">>

RECURSIVE emit_items(_, _, _)
emit_items(seq, i, indent) ==
  IF i > Len(seq) THEN <<>>
  ELSE indentation(indent) \o <<"-">> \o emit_value(seq[i], indent)
         \o emit_items(seq, i + 1, indent)

emit_sequence(seq, indent) ==
  IF seq = <<>> THEN indentation(indent) \o <<"[", "]", "\n">>
  ELSE emit_items(seq, 1, indent)

RECURSIVE emit_entries(_, _, _, _)
emit_entries(map, keys, i, indent) ==
  IF i > Len(keys) THEN <<>>
  ELSE indentation(indent) \o format_key(keys[i]) \o <<":">>
         \o emit_value(map[keys[i]], indent)
         \o emit_entries(map, keys, i + 1, indent)

emit_mapping(map, indent) ==
  IF map = <<>> THEN indentation(indent) \o <<"{", "}", "\n">>
  ELSE emit_entries(map, SortedKeys(DOMAIN map), 1, indent)

emit_node(node, indent) ==
  IF is_mapping(node) THEN emit_mapping(node.m, indent)
  ELSE IF is_sequence(node) THEN emit_sequence(node.q, indent)
  ELSE indentation(indent) \o format_scalar(node) \o <<"\n">>

to_yaml_string(node) == emit_node(node, 0)

-----------------------------------------------------------------------------
(* Driver 8: a tree written with to_yaml_string and the text read back     *)
(* with load_yaml_string (tests/test_main.cpp, yaml_emission_round_trip).  *)

YamlStrings ==
  {<<"x">>, <<"a", " ", "b">>, <<"a", ".", "b">>, <<"x", ":", "y">>,
   <<"-", "x">>, <<"a", "\n", "b">>, <<"a", "\\", "b">>, <<>>,
   Literal42, KwTrue, KwTilde, <<"1", ".", "5">>}

YamlScalars ==
  {make_null, make_bool(TRUE), make_bool(FALSE), make_int(7), make_int(-3),
   make_double(15, -1), make_double(1, 0)}
    \cup {make_string(s) : s \in YamlStrings}

YamlInner ==
  YamlScalars \cup
  {make_sequence, make_mapping, make_seq(<<make_int(1), make_int(2)>>),
   make_seq(<<make_sequence, make_mapping>>),
   make_map(Kb :> make_string(X)),
   make_map(Kb :> make_seq(<<make_map(Ka :> make_int(1))>>))}

YamlKeys == {Ka, Kab, Literal42}

\* Scalars and containers at the root; sequences of one or two nodes and
\* mappings with one or two keys, nested up to three deep.
YamlTrees ==
  YamlInner
    \cup {make_seq(<<v>>) : v \in YamlInner}
    \cup {make_seq(<<make_string(X), v>>) : v \in YamlInner}
    \cup {make_map(k :> v) : k \in YamlKeys, v \in YamlInner}
    \cup {make_map((Kb :> make_int(1)) @@ (Ka :> v)) : v \in YamlInner}

YamlInit ==
  /\ ytree \in YamlTrees
  /\ ytext = <<>> /\ yload = NoCall /\ ypc = "init"
  /\ AssignIdle /\ MergeIdle /\ LoadIdle /\ ResolveIdle
  /\ MergedIdle /\ OverrideIdle /\ PathIdle /\ ApiIdle

Emit ==
  /\ ypc = "init"
  /\ ytext' = to_yaml_string(ytree)
  /\ ypc' = "emitted"
  /\ UNCHANGED <<ytree, yload>>

Reload ==
  /\ ypc = "emitted"
  /\ LET r == load_yaml_string(ytext)
     IN  yload' = [called |-> TRUE, ok |-> r.ok, err |-> r.err,
                   node |-> r.node]
  /\ ypc' = "loaded"
  /\ UNCHANGED <<ytree, ytext>>

YamlNext ==
  /\ (Emit \/ Reload)
  /\ UNCHANGED <<assignVars, mergeVars, loadVars, resolveVars,
                 mergedVars, overrideVars, pathVars, apiVars>>

SpecYaml == YamlInit /\ [][YamlNext]_vars

\* C17: the text to_yaml_string gives for a tree is read back by
\* load_yaml_string as that tree: the same keys and sequence lengths, and
\* every scalar with its variant and value.
C17_YamlRoundTrip ==
  ypc = "loaded" => (yload.ok /\ yload.node = ytree)

-----------------------------------------------------------------------------
(* Claims about a failed resolve_interpolations (SpecResolve).             *)

\* C21: when resolve_interpolations fails (cycle, missing target, container
\* target, unterminated placeholder), the tree is as it was before the call:
\* no string node has been rewritten.
C21_FailureLeavesTree ==
  rpc = "failed" => rroot = rorig

-----------------------------------------------------------------------------
(* hydra::utils::initialize (src/config_utils.cpp): the command line is     *)
(* read, the config files are merged, the overrides applied, the job name   *)
(* derived and the interpolations resolved.                                 *)

CString(s) == [null |-> FALSE, s |-> s]
Nullptr == [null |-> TRUE, s |-> <<>>]

ShortConfig == <<"-", "c">>
LongConfig == <<"-", "-", "c", "o", "n", "f", "i", "g">>
ConfigEquals == <<"-", "-", "c", "o", "n", "f", "i", "g", "=">>
AppName == <<"a", "p", "p">>
JobNamePath == <<<<"h", "y", "d", "r", "a">>, <<"j", "o", "b">>, <<"n", "a", "m", "e">>>>

ArgsOk(files, ovr) ==
  [ok |-> TRUE, config_files |-> files, overrides |-> ovr]
ArgsThrow == [ok |-> FALSE, config_files |-> <<>>, overrides |-> <<>>]

\* Lines 49-61: argv[i] onwards, sorted into config files and overrides.
RECURSIVE parse_arguments(_, _, _, _, _)
parse_arguments(n, args, i, files, ovr) ==
  IF i >= n THEN ArgsOk(files, ovr)
  ELSE
    LET arg == args[i + 1].s IN
    IF arg = ShortConfig \/ arg = LongConfig
      THEN IF i + 1 >= n THEN ArgsThrow
           ELSE parse_arguments(n, args, i + 2,
                                Append(files, args[i + 2].s), ovr)
    ELSE IF starts_with(arg, ConfigEquals)
      THEN parse_arguments(n, args, i + 1,
                           Append(files, substr_from(arg, Len(ConfigEquals))),
                           ovr)
    ELSE parse_arguments(n, args, i + 1, files, Append(ovr, arg))

\* Lines 83-88: the job name derived from the program name.
derived_job_name(n, args) ==
  IF n > 0 /\ args # <<>> /\ ~args[1].null
    THEN filename(args[1].s)
    ELSE AppName

InitializeThrow(e) ==
  /\ ipc' = "thrown" /\ ierr' = e

\* Lines 46-68: the command line is read; config starts as an empty mapping.
InitializeArgs ==
  /\ ipc = "args"
  /\ LET a == parse_arguments(argc, argv, 1, <<>>, <<>>) IN
     IF ~a.ok
       THEN /\ InitializeThrow("ConfigRequiresArgument")
            /\ UNCHANGED <<config_files, overrides, config>>
       ELSE /\ config_files' =
                 IF a.config_files = <<>> /\ default_config # <<>>
                   THEN <<default_config>>
                   ELSE a.config_files
            /\ overrides' = a.overrides
            /\ config' = make_mapping
            /\ ipc' = "run"
            /\ UNCHANGED ierr
  /\ UNCHANGED <<argc, argv, default_config, ifs, iover, resolveVars>>

\* Lines 69-72: the next config file is loaded and merged into config.
InitializeLoad ==
  /\ ipc = "run" /\ config_files # <<>>
  /\ LET loaded == load_yaml_file(ifs,
                                  path_components(Head(config_files), 1, <<>>))
     IN
     IF ~loaded.ok
       THEN /\ InitializeThrow(loaded.err.kind)
            /\ UNCHANGED <<config_files, config>>
       ELSE /\ config' = merge(config, loaded.node)
            /\ config_files' = Tail(config_files)
            /\ UNCHANGED <<ipc, ierr>>
  /\ UNCHANGED <<argc, argv, default_config, ifs, overrides, iover,
                 resolveVars>>

\* The assignment of a parsed override (line 77).
apply_override(root, ov) ==
  IF ~ov.ok THEN Thrown(ov.err, <<>>, root)
  ELSE assign_path(root, ov.path, ov.value, ov.require_new)

\* Lines 75-78: the next override is parsed and assigned.
InitializeOverride ==
  /\ ipc = "run" /\ config_files = <<>> /\ overrides # <<>>
  /\ LET r == apply_override(config, parse_override(Head(overrides))) IN
       /\ config' = r.root
       /\ IF r.ok
            THEN /\ overrides' = Tail(overrides)
                 /\ UNCHANGED <<ipc, ierr>>
            ELSE /\ InitializeThrow(r.err)
                 /\ UNCHANGED overrides
  /\ UNCHANGED <<argc, argv, default_config, ifs, config_files, iover,
                 resolveVars>>

\* Lines 81-90: the tree after the job name has been looked at.
job_name_set(root, n, args) ==
  LET job_name_node == find_path(root, JobNamePath) IN
  IF ~job_name_node.found \/ is_null(job_name_node.node)
    THEN assign_path(root, JobNamePath,
                     make_string(derived_job_name(n, args)), FALSE)
    ELSE Done(root)

\* Lines 81-93: the job name is derived, then resolve_interpolations is
\* called on config.
InitializeJobName ==
  /\ ipc = "run" /\ config_files = <<>> /\ overrides = <<>>
  /\ iover' = [called |-> TRUE, node |-> config]
  /\ LET r == job_name_set(config, argc, argv) IN
       /\ config' = r.root
       /\ IF r.ok
            THEN /\ ipc' = "resolve"
                 /\ rroot' = r.root /\ rorig' = r.root
                 /\ rstack' = <<NodeFrame(<<>>)>>
                 /\ rpc' = "run"
                 /\ UNCHANGED <<ierr, renv, resolving, resolved, rerr, rret,
                                rsteps, rscans>>
            ELSE /\ InitializeThrow(r.err)
                 /\ UNCHANGED resolveVars
  /\ UNCHANGED <<argc, argv, default_config, ifs, config_files, overrides>>

\* Line 93: one step of the resolution pass on config.
InitializeResolve ==
  /\ ipc = "resolve"
  /\ ResolveStep
  /\ rsteps' = rsteps + 1
  /\ rscans' = rscans \o ScanStarted
  /\ UNCHANGED initVars

\* Lines 93-95: the pass has ended; config is returned, or its exception
\* leaves initialize.
InitializeReturn ==
  /\ ipc = "resolve" /\ ResolveEnded
  /\ config' = rroot
  /\ IF rpc = "done"
       THEN ipc' = "returned" /\ UNCHANGED ierr
       ELSE InitializeThrow(rerr.kind)
  /\ UNCHANGED <<argc, argv, default_config, ifs, config_files, overrides,
                 iover, resolveVars>>

InitializeNext ==
  /\ \/ InitializeArgs \/ InitializeLoad \/ InitializeOverride
     \/ InitializeJobName \/ InitializeResolve \/ InitializeReturn
  /\ UNCHANGED <<assignVars, mergeVars, loadVars, textVars, capiVars,
                 logVars>>

-----------------------------------------------------------------------------
(* Driver 9: one call of initialize on a command line and a file system.   *)

FileM == << <<"m", ".", "y", "a", "m", "l">> >>
FileD == << <<"d", ".", "y", "a", "m", "l">> >>

JobTree(name) == make_map(<<"h", "y", "d", "r", "a">> :> make_map(<<"j", "o", "b">> :> name))

ContentsM ==
  { Absent,
    make_int(7),
    make_map(Ka :> make_string(Ref(EnvPrefix \o KV \o <<",", "w">>))),
    make_map(<<"h", "y", "d", "r", "a">> :> make_int(5)),
    JobTree(make_mapping),
    JobTree(make_map(<<"n", "a", "m", "e">> :> make_null)),
    JobTree(make_map(<<"n", "a", "m", "e">> :> make_string(<<"n">>))),
    make_map((<<"h", "y", "d", "r", "a">> :> make_map(<<"j", "o", "b">> :> make_map(<<"n", "a", "m", "e">> :> make_null)))
             @@ (Ka :> make_string(Ref(<<"h", "y", "d", "r", "a", ".", "j", "o", "b", ".", "n", "a", "m", "e">>)))),
    make_map((<<"h", "y", "d", "r", "a">> :> make_map(<<"j", "o", "b">> :> make_map(<<"n", "a", "m", "e">> :> make_null)))
             @@ (Ka :> make_string(Unterminated))) }

ContentsD ==
  { Absent,
    make_map(Kb :> make_int(1)),
    JobTree(make_map(<<"n", "a", "m", "e">> :> make_string(<<"d">>))) }

Programs == {Nullptr, CString(<<".", "/", "t", "/", "p">>), CString(<<"p">>)}

ArgumentLists ==
  { <<>>,
    <<ShortConfig, <<"m", ".", "y", "a", "m", "l">>>>,
    <<<<"-", "-", "c", "o", "n", "f", "i", "g", "=", "m", ".", "y", "a", "m", "l">>>>,
    <<ShortConfig>>,
    <<LongConfig, <<"m", ".", "y", "a", "m", "l">>, <<"h", "y", "d", "r", "a", ".", "j", "o", "b", ".", "n", "a", "m", "e", "=", "j">>>>,
    <<ShortConfig, <<"m", ".", "y", "a", "m", "l">>, ShortConfig, <<"d", ".", "y", "a", "m", "l">>>>,
    <<<<"-", "-", "c", "o", "n", "f", "i", "g", "=", "m", ".", "y", "a", "m", "l">>, <<"+", "h", "y", "d", "r", "a", ".", "j", "o", "b", ".", "n", "a", "m", "e", "=", "j">>>>,
    <<ShortConfig, <<"m", ".", "y", "a", "m", "l">>, <<"h", "y", "d", "r", "a", ".", "j", "o", "b", ".", "n", "a", "m", "e", "=", "n", "u", "l", "l">>>>,
    <<ShortConfig, <<"m", ".", "y", "a", "m", "l">>, <<"+", "b", "=", "1">>, <<"h", "y", "d", "r", "a", ".", "j", "o", "b", ".", "n", "a", "m", "e", "=", "j">>>>,
    <<<<"b", "a", "d">>>> }

CommandLines ==
  {<<p>> \o [i \in DOMAIN a |-> CString(a[i])] :
     p \in Programs, a \in ArgumentLists}

InitializeInit ==
  /\ argv \in CommandLines \cup {<<>>}
  /\ argc = Len(argv)
  /\ default_config \in {<<>>, <<"d", ".", "y", "a", "m", "l">>}
  /\ \E m \in ContentsM, d \in ContentsD :
       LET all == (FileM :> m) @@ (FileD :> d)
       IN  ifs = [p \in {q \in DOMAIN all : all[q] # Absent} |-> all[p]]
  /\ config_files = <<>> /\ overrides = <<>> /\ config = make_null
  /\ iover = NoCall /\ ipc = "args" /\ ierr = "none"
  /\ AssignIdle /\ MergeIdle /\ LoadIdle /\ ResolveIdle /\ TextIdle
  /\ CApiIdle /\ LoggingIdle

SpecInitialize == InitializeInit /\ [][InitializeNext]_vars

-----------------------------------------------------------------------------
(* Claims about initialize (SpecInitialize).                               *)

\* C22: initialize merges the config files, applies the overrides, derives
\* the job name and resolves: whenever hydra.job.name is absent or null after
\* the overrides the call succeeds and hydra.job.name is the basename of
\* argv[0] ("app" when argv[0] is unavailable); a job name already set to a
\* non-null value is kept.  Only the resolution pass that follows may still
\* make the call fail.
C22_JobName ==
  (ipc \in {"returned", "thrown"} /\ iover.called) =>
    LET before == find_path(iover.node, JobNamePath)
        after == find_path(config, JobNamePath)
    IN  IF ~before.found \/ is_null(before.node)
          THEN /\ ipc = "thrown" => rpc = "failed"
               /\ ipc = "returned" =>
                    after = Found(make_string(derived_job_name(argc, argv)))
          ELSE after = before

-----------------------------------------------------------------------------
(* resolve_interpolations as a function of the tree, the environment and   *)
(* the clock: the outcome of the whole pass, used by the C API, where each *)
(* read runs one pass.  A pass state st holds the tree, the two sets and    *)
(* the exception, "none" while none has been thrown; an exception ends      *)
(* every call that is still open.                                           *)

Pass(root) ==
  [root |-> root, resolving |-> {}, resolved |-> {}, err |-> "none"]
PassThrows(st, e) == [st EXCEPT !.err = e]
Text(st, text) == [st |-> st, text |-> text]

RECURSIVE resolve_node_fn(_, _, _)
RECURSIVE resolve_string_fn(_, _, _, _, _, _)

\* Lines 165-176: the calls on the children that are still to be visited.
RECURSIVE resolve_children(_, _, _, _)
resolve_children(w, st, path, todo) ==
  IF st.err # "none" \/ todo = <<>> THEN st
  ELSE resolve_children(w, resolve_node_fn(w, st, Append(path, Head(todo))),
                        path, Tail(todo))

\* Line 180: the string node takes the value resolve_string returned.
resolve_assign(r, path) ==
  IF r.st.err # "none" THEN r.st
  ELSE [r.st EXCEPT !.root = node_put(@, path, 1, make_string(r.text))]

\* Lines 164-181: the branch on the node's type.
resolve_body(w, st, path, node) ==
  IF is_mapping(node)
    THEN resolve_children(w, st, path, SortedKeys(DOMAIN node.m))
  ELSE IF is_sequence(node)
    THEN resolve_children(w, st, path, IndexKeys(node.q))
  ELSE IF is_string(node)
    THEN resolve_assign(resolve_string_fn(w, st, path, node.s, 0, <<>>), path)
  ELSE st

\* Lines 183-184: the key moves from resolving to resolved.
resolve_exit(st, key) ==
  IF st.err # "none" THEN st
  ELSE [st EXCEPT !.resolving = @ \ {key}, !.resolved = @ \cup {key}]

\* resolve_node (lines 150-185).
resolve_node_fn(w, st, path) ==
  LET key == join_path(path) IN
  IF key \in st.resolved THEN st
  ELSE IF key \in st.resolving THEN PassThrows(st, "Cycle")
  ELSE resolve_exit(
         resolve_body(w, [st EXCEPT !.resolving = @ \cup {key}], path,
                      node_at(st.root, path, 1)),
         key)

\* Line 121: the string form of the target once resolve_node has returned.
ref_string(st, target) ==
  IF st.err # "none" THEN Text(st, <<>>)
  ELSE IF node_to_string(find_path(st.root, target).node).ok
    THEN Text(st, node_to_string(find_path(st.root, target).node).s)
  ELSE Text(PassThrows(st, "ComplexNode"), <<>>)

\* Lines 113-121: a reference to another node.
ref_text(w, st, target) ==
  IF ~target.ok THEN Text(PassThrows(st, target.err), <<>>)
  ELSE IF ~find_path(st.root, target.components).found
    THEN Text(PassThrows(st, "NotFound"), <<>>)
  ELSE ref_string(resolve_node_fn(w, st, target.components),
                  target.components)

\* Lines 92-97: the value of an oc.env expression.
env_text(w, st, path, e) ==
  IF e.direct THEN Text(st, e.s)
  ELSE resolve_string_fn(w, st, path, e.s, 0, <<>>)

\* Lines 105-107: the value of a now: expression.
now_text(st, written) ==
  IF written.ok THEN Text(st, written.s)
  ELSE Text(PassThrows(st, "FormatFailed"), <<>>)

\* resolve_expression (lines 100-122).
resolve_expression(w, st, path, expression) ==
  IF starts_with(expression, NowPrefix)
    THEN now_text(st, format_now(substr_from(expression, Len(NowPrefix)),
                                 w.tm))
  ELSE IF starts_with(expression, EnvPrefix)
    THEN env_text(w, st, path,
                  resolve_env_expression(
                    w.env, substr_from(expression, Len(EnvPrefix))))
  ELSE ref_text(w, st, parse_override_path(expression))

\* Lines 144-146: the value of the placeholder is appended and the scan
\* goes on behind its '}'.
scan_next(w, r, path, value, pos, result) ==
  resolve_string_fn(w, r.st, path, value, pos, result \o r.text)

\* Lines 138-143: the placeholder's end.
scan_close(w, st, path, value, result, start, end) ==
  IF end = npos(value) THEN Text(PassThrows(st, "Unterminated"), <<>>)
  ELSE scan_next(w,
                 resolve_expression(
                   w, st, path,
                   substr(value, start + Len(PlaceholderOpen),
                          end - (start + Len(PlaceholderOpen)))),
                 path, value, end + 1, result)

\* Lines 132-137: the next placeholder's start.
scan_open(w, st, path, value, pos, result, start) ==
  IF start = npos(value) THEN Text(st, result \o substr_from(value, pos))
  ELSE scan_close(w, st, path, value,
                  result \o substr(value, pos, start - pos), start,
                  find(value, PlaceholderClose, start + Len(PlaceholderOpen)))

\* resolve_string (lines 124-148) from position pos on.
resolve_string_fn(w, st, path, value, pos, result) ==
  IF st.err # "none" THEN Text(st, <<>>)
  ELSE IF pos >= Len(value) THEN Text(st, result)
  ELSE scan_open(w, st, path, value, pos, result,
                 find(value, PlaceholderOpen, pos))

\* resolve_interpolations (lines 189-193) in the world w: the environment
\* and the local time.
resolve_interpolations(root, w) == resolve_node_fn(w, Pass(root), <<>>)

World(env, tm) == [env |-> env, tm |-> tm]

\* The step-by-step pass and the function agree on every tree.
ResolveAgrees ==
  ResolveEnded =>
    \E tm \in Clocks :
      LET st == resolve_interpolations(rorig, World(renv, tm))
      IN  /\ st.root = rroot
          /\ st.err = rerr.kind
          /\ st.err = "none" => st.resolved = resolved

-----------------------------------------------------------------------------
(* The C API (src/c_api.cpp): a hydra_config holds one node; every read    *)
(* runs ensure_resolved on it first.  The functions take the pass state     *)
(* ensure_resolved has left and give the node the config holds afterwards   *)
(* together with what they return.                                          *)

\* ensure_resolved (lines 449-453): one resolution pass on config->node.
ensure_resolved(node, w) == resolve_interpolations(node, w)

Located(ok, f, rendered) ==
  [ok |-> ok, found |-> f.found,
   node |-> IF f.found THEN f.node ELSE make_null, rendered |-> rendered]

\* The node parse_path and find_path come to on a parsed path.
locate_parsed(node, path) ==
  IF ~path.ok THEN Located(FALSE, NotFound, <<>>)
  ELSE Located(TRUE, find_path(node, path.components),
               build_path_expression(path.components))

\* locate (lines 462-469); ok is FALSE when parse_path throws.
locate(node, path_expression) ==
  locate_parsed(node, parse_override_path(path_expression))

\* A mutant of append_segment: the component is appended as it is.
append_segment_unescaped(base, component) ==
  IF base = <<>> THEN component
  ELSE IF component = <<>> THEN base
  ELSE base \o <<".">> \o component

\* append_segment (lines 499-514).
append_segment(base, component) ==
  IF base = <<>> THEN escape_path_segment(component)
  ELSE IF escape_path_segment(component) = <<>> THEN base
  ELSE base \o <<".">> \o escape_path_segment(component)

\* locate_with_rendered (lines 516-529): the empty expression is the root.
locate_with_rendered(node, path_expression) ==
  IF path_expression = <<>> THEN Located(TRUE, Found(node), <<>>)
  ELSE locate(node, path_expression)

HasResult(node, ret) == [node |-> node, ret |-> ret]

\* hydra_config_has (lines 648-660) once ensure_resolved has run.
has_located(st, loc) ==
  HasResult(st.root, IF st.err = "none" /\ loc.ok /\ loc.found THEN 1 ELSE 0)

hydra_config_has(node, path_expression, w) ==
  has_located(ensure_resolved(node, w),
              locate(ensure_resolved(node, w).root, path_expression))

SequenceIter(loc) ==
  [null |-> FALSE, kind |-> "Sequence", base_path |-> loc.rendered,
   sequence |-> loc.node.q, mapping |-> <<>>, keys |-> <<>>, map_it |-> 0,
   index |-> 0]

\* std::map iterates in the order of its keys: map_it is a position in it.
MappingIter(loc) ==
  [null |-> FALSE, kind |-> "Mapping", base_path |-> loc.rendered,
   sequence |-> <<>>, mapping |-> loc.node.m,
   keys |-> SortedKeys(DOMAIN loc.node.m), map_it |-> 1, index |-> 0]

\* hydra_config_sequence_iter (lines 673-697) once ensure_resolved has run:
\* the iterator, null when the call returns HYDRA_STATUS_ERROR.
sequence_iter_at(st, loc) ==
  IF st.err # "none" \/ ~loc.ok \/ ~loc.found THEN NullIter
  ELSE IF ~is_sequence(loc.node) THEN NullIter
  ELSE SequenceIter(loc)

\* hydra_config_map_iter (lines 711-737) once ensure_resolved has run.
map_iter_at(st, loc) ==
  IF st.err # "none" \/ ~loc.ok \/ ~loc.found THEN NullIter
  ELSE IF ~is_mapping(loc.node) THEN NullIter
  ELSE MappingIter(loc)

hydra_config_sequence_iter(st, path_expression) ==
  sequence_iter_at(st, locate_with_rendered(st.root, path_expression))

hydra_config_map_iter(st, path_expression) ==
  map_iter_at(st, locate_with_rendered(st.root, path_expression))

\* What one hydra_config_iter_next call leaves: the iterator, the return
\* value and the three out parameters.
NextResult(it, ret, child_path, key, index) ==
  [iter |-> it, ret |-> ret, child_path |-> child_path, key |-> key,
   index |-> index]

\* Lines 772-786: the sequence iterator; fails names the dup_string call
\* whose malloc returns a null pointer.
next_in_sequence(it, fails) ==
  IF it.index >= Len(it.sequence)
    THEN NextResult(it, 0, Nullptr, Nullptr, 0)
  ELSE IF fails = "child_path"
    THEN NextResult([it EXCEPT !.index = @ + 1], -1, Nullptr, Nullptr,
                    it.index)
  ELSE NextResult([it EXCEPT !.index = @ + 1], 1,
                  CString(append_segment(it.base_path, to_string(it.index))),
                  Nullptr, it.index)

\* Lines 788-808: the mapping iterator.
next_in_mapping(it, fails) ==
  IF it.map_it > Len(it.keys)
    THEN NextResult(it, 0, Nullptr, Nullptr, 0)
  ELSE IF fails \in {"child_path", "key"}
    THEN NextResult([it EXCEPT !.index = @ + 1, !.map_it = @ + 1], -1,
                    Nullptr, Nullptr, it.index)
  ELSE NextResult([it EXCEPT !.index = @ + 1, !.map_it = @ + 1], 1,
                  CString(append_segment(it.base_path, it.keys[it.map_it])),
                  CString(it.keys[it.map_it]), it.index)

\* hydra_config_iter_next (lines 740-809) with all out pointers given.
hydra_config_iter_next(it, fails) ==
  IF it.null THEN NextResult(it, -1, Nullptr, Nullptr, 0)
  ELSE IF it.kind = "Sequence" THEN next_in_sequence(it, fails)
  ELSE next_in_mapping(it, fails)

-----------------------------------------------------------------------------
(* Driver 10: one iterator made on a config and advanced call by call,     *)
(* hydra_config_has asked about the child paths it returns.                *)

\* The calls of hydra_config_iter_next made on the iterator.
MaxNext == 5

ApiWorld == World(<<>>, [year |-> <<"2", "0", "2", "6">>])

Ks == <<"s">>
Km == <<"m">>
Ke == <<"e">>
Kkk == <<"k", ".", "k">>

IterTrees ==
  { make_map(
      (Ks :> make_seq(<<make_string(X), make_int(7), make_string(Ref(Km \o <<".">> \o Ka))>>))
      @@ (Km :> make_map((Ka :> make_int(1)) @@ (Kab :> make_int(2))
                         @@ (<<>> :> make_int(3))
                         @@ (<<"b", "\\", "c">> :> make_string(X))))
      @@ (Ke :> make_sequence)
      @@ (Kkk :> make_map(<<"z">> :> make_seq(<<make_bool(TRUE)>>)))),
    make_map(
      (Ks :> make_seq(<<make_string(X), make_string(<<"y">>)>>))
      @@ (Km :> make_map((Ka :> make_string(Ref(Kb))) @@ (Kb :> make_int(2))))
      @@ (Ke :> make_mapping)),
    make_seq(<<make_string(<<"p">>), make_string(<<"q">>)>>),
    make_map(Km :> make_map(Ka :> make_string(RefMissing))) }

IterPaths ==
  {<<>>, Ks, Km, Ke, <<"k", "\\", ".", "k">>, <<"k", "\\", ".", "k", ".", "z">>, <<"z", "z">>, <<"s", ".">>, <<"m", ".", "a">>}

IterInit ==
  /\ hconfig \in IterTrees
  /\ iter = NullIter /\ ihist = <<>> /\ ihas = NoCall /\ hcalls = 0
  /\ hshadow = make_null /\ hread = NoCall
  /\ AssignIdle /\ MergeIdle /\ LoadIdle /\ ResolveIdle /\ TextIdle
  /\ InitializeIdle /\ LoggingIdle

\* hydra_config_sequence_iter / hydra_config_map_iter on a path.
IterCreate(kind, path_expression) ==
  /\ hcalls = 0
  /\ hcalls' = 1
  /\ hconfig' = ensure_resolved(hconfig, ApiWorld).root
  /\ iter' =
       IF kind = "Sequence"
         THEN hydra_config_sequence_iter(ensure_resolved(hconfig, ApiWorld),
                                         path_expression)
         ELSE hydra_config_map_iter(ensure_resolved(hconfig, ApiWorld),
                                    path_expression)
  /\ UNCHANGED <<ihist, ihas, hshadow, hread>>

\* The element a call of hydra_config_iter_next stands at, if any.
ElementAt(it) ==
  IF it.null THEN NotFound
  ELSE IF it.kind = "Sequence"
    THEN (IF it.index < Len(it.sequence)
            THEN Found(it.sequence[it.index + 1]) ELSE NotFound)
  ELSE (IF it.map_it <= Len(it.keys)
          THEN Found(it.mapping[it.keys[it.map_it]]) ELSE NotFound)

\* One hydra_config_iter_next call; the history keeps what it returned, the
\* element it stood at and the allocation that failed.
IterNext(fails) ==
  /\ hcalls >= 1 /\ Len(ihist) < MaxNext
  /\ iter' = hydra_config_iter_next(iter, fails).iter
  /\ ihist' = Append(ihist,
                     [r |-> hydra_config_iter_next(iter, fails),
                      element |-> ElementAt(iter),
                      null_iter |-> iter.null, fails |-> fails])
  /\ hcalls' = hcalls + 1
  /\ UNCHANGED <<hconfig, ihas, hshadow, hread>>

\* hydra_config_has on the child_path the last call returned.
IterHas ==
  /\ ihist # <<>> /\ ihist[Len(ihist)].r.ret = 1
  /\ ihas.called => ihas.at # Len(ihist)
  /\ LET child_path == ihist[Len(ihist)].r.child_path.s
         r == hydra_config_has(hconfig, child_path, ApiWorld)
     IN  /\ hconfig' = r.node
         /\ ihas' = [called |-> TRUE, at |-> Len(ihist), path |-> child_path,
                     ret |-> r.ret, located |-> locate(r.node, child_path)]
  /\ hcalls' = hcalls + 1
  /\ UNCHANGED <<iter, ihist, hshadow, hread>>

IterStep ==
  \/ \E kind \in {"Sequence", "Mapping"}, path_expression \in IterPaths :
       IterCreate(kind, path_expression)
  \/ \E fails \in {"none", "child_path", "key"} : IterNext(fails)
  \/ IterHas

IterNextStep ==
  /\ IterStep
  /\ UNCHANGED <<assignVars, mergeVars, loadVars, resolveVars, textVars,
                 initVars, logVars>>

SpecIter == IterInit /\ [][IterNextStep]_vars

-----------------------------------------------------------------------------
(* Claims about the iterators (SpecIter).                                  *)

\* The number of elements of the container the iterator was made on.
IterCount ==
  IF iter.kind = "Sequence" THEN Len(iter.sequence)
  ELSE Cardinality(DOMAIN iter.mapping)

NoAllocationFailure == \A i \in DOMAIN ihist : ihist[i].r.ret # -1

\* 'B.<escaped segment>', the segment alone below the root.
DottedChild(seg) ==
  IF iter.base_path = <<>> THEN escape_path_segment(seg)
  ELSE iter.base_path \o <<".">> \o escape_path_segment(seg)

\* The same, but the base path itself for the empty segment.
DottedOrBase(seg) ==
  IF seg = <<>> THEN iter.base_path ELSE DottedChild(seg)

\* The contract of hydra_config_iter_next, Child(seg) being the child_path
\* of the element at segment seg.
IterContract(Child(_)) ==
  /\ (~iter.null /\ NoAllocationFailure) =>
       \A i \in DOMAIN ihist :
         LET r == ihist[i].r IN
         IF i <= IterCount
           THEN /\ r.ret = 1 /\ r.index = i - 1
                /\ IF iter.kind = "Sequence"
                     THEN r.child_path = CString(Child(to_string(i - 1)))
                     ELSE /\ ~r.key.null
                          /\ r.key.s \in DOMAIN iter.mapping
                          /\ r.child_path = CString(Child(r.key.s))
                          /\ \A j \in 1..(i - 1) :
                               StrLess(ihist[j].r.key.s, r.key.s)
           ELSE r.ret = 0
  /\ \A i \in DOMAIN ihist :
       ihist[i].r.ret = -1 => (ihist[i].null_iter \/ ihist[i].fails # "none")

-----------------------------------------------------------------------------
(* Claims about the loader's visiting set (SpecLoad).                      *)

\* The normalized paths of the load_with_includes calls in progress.
InProgress == {frames[i].path : i \in DOMAIN frames}

\* C24: at every point of a load_yaml_file call the visiting set holds
\* exactly the normalized paths of the files whose load is in progress, each
\* once; a path leaves the set when its load returns, so the cycle error is
\* raised only for a file that is in the current include chain.
C24_VisitingSet ==
  /\ lstack = InProgress
  /\ Cardinality(lstack) = Len(frames)
  /\ lerr.kind = "RecursiveInclude" => lerr.path \in InProgress

\* C24 witness: a load has ended without an error after g/y.yaml was parsed
\* twice, included from b.yaml and from g/x.yaml.
C24_Witness ==
  /\ lpc = "done"
  /\ \E i, j \in DOMAIN lparsed : i < j /\ lparsed[i] = lparsed[j]
  /\ \E i, j \in DOMAIN lparsed :
       /\ i < j /\ lparsed[i] = FileGY /\ lparsed[j] = FileGY
       /\ \E k \in (i + 1)..(j - 1) : lparsed[k] = FileGX

-----------------------------------------------------------------------------
(* Claims about the pass's bookkeeping (SpecResolve).                      *)

\* The resolve_node calls that have inserted their key and not yet returned.
EnteredCalls ==
  {i \in DOMAIN rstack : rstack[i].kind = "node" /\ rstack[i].phase # "enter"}

\* The string node at path p has taken its resolved value: resolve_string
\* was called on it and no resolve_node call is waiting to assign it.
Assigned(p) ==
  /\ \E i \in DOMAIN rscans : rscans[i] = p
  /\ \A i \in DOMAIN rstack :
       ~(rstack[i].kind = "node" /\ rstack[i].path = p
         /\ rstack[i].phase = "assign")

\* resolving and resolved are disjoint, resolving holds the keys of the
\* calls in progress, one key each, and no string node is handed to
\* resolve_string twice.
BookkeepingInvariant ==
  /\ resolving \cap resolved = {}
  /\ resolving = {join_path(rstack[i].path) : i \in EnteredCalls}
  /\ Cardinality(resolving) = Cardinality(EnteredCalls)
  /\ \A i, j \in DOMAIN rscans : i < j => rscans[i] # rscans[j]

\* A key enters resolved only in the step in which the resolve_node call of
\* a node with that key returns.
EntersResolvedOnReturn ==
  \A key \in resolved' \ resolved :
    /\ rstack # <<>> /\ RTop.kind = "node" /\ join_path(RTop.path) = key
    /\ rstack' = RPop

\* A string node that has taken its resolved value keeps it.
ResolvedValueKept ==
  \A i \in DOMAIN rscans :
    Assigned(rscans[i]) =>
      node_at(rroot', rscans[i], 1) = node_at(rroot, rscans[i], 1)

\* C25: during one pass resolving and resolved are disjoint, resolving holds
\* exactly the keys of the nodes whose resolution is in progress, a key
\* enters resolved only when the resolution of its node has completed, each
\* string node has its placeholders evaluated at most once, and the text a
\* substitution produced is never scanned again.
C25_Bookkeeping ==
  /\ []BookkeepingInvariant
  /\ [][EntersResolvedOnReturn /\ ResolvedValueKept]_vars

\* C25 witness: the pass has ended with a = "${b}" taken literally from the
\* environment variable V and c = "${a}/${b}" holding that text unresolved
\* in front of the resolved value of b.
C25_Witness ==
  /\ rpc = "done" /\ renv = (KV :> RefB)
  /\ {Ka, Kb, Kc} \subseteq DOMAIN rroot.m
  /\ rorig.m[Ka] = make_string(EnvWithFallback)
  /\ rroot.m[Ka] = make_string(RefB)
  /\ rorig.m[Kc] = make_string(RefBoth)
  /\ rorig.m[Kb] = make_string(NowYear)
  /\ is_string(rroot.m[Kb])
  /\ rroot.m[Kc] = make_string(RefB \o <<"/">> \o rroot.m[Kb].s)

-----------------------------------------------------------------------------
(* The C API's merges, overrides and reads on one hydra_config.            *)

StatusOk(value) == [status |-> "HYDRA_STATUS_OK", value |-> value]
StatusError == [status |-> "HYDRA_STATUS_ERROR", value |-> <<>>]

\* hydra_config_merge_string (lines 571-590): the node afterwards.
merge_loaded(node, loaded) ==
  IF loaded.ok THEN merge(node, loaded.node) ELSE node

hydra_config_merge_string(node, yaml_content) ==
  merge_loaded(node, load_yaml_string(yaml_content))

\* hydra_config_apply_override (lines 592-608): the node afterwards.
hydra_config_apply_override(node, expression) ==
  apply_override(node, parse_override(expression)).root

\* hydra_config_get_string (lines 1007-1036) once ensure_resolved has run.
get_string_at(st, loc) ==
  IF st.err # "none" \/ ~loc.ok \/ ~loc.found THEN StatusError
  ELSE IF ~is_string(loc.node) THEN StatusError
  ELSE StatusOk(loc.node.s)

hydra_config_get_string(st, path_expression) ==
  get_string_at(st, locate(st.root, path_expression))

\* hydra_config_get_int (lines 952-977) once ensure_resolved has run.
get_int_at(st, loc) ==
  IF st.err # "none" \/ ~loc.ok \/ ~loc.found THEN StatusError
  ELSE IF ~is_int(loc.node) THEN StatusError
  ELSE StatusOk(loc.node.i)

hydra_config_get_int(st, path_expression) ==
  get_int_at(st, locate(st.root, path_expression))

\* hydra_config_to_yaml_string (lines 1151-1166) once ensure_resolved has
\* run.
hydra_config_to_yaml_string(st) ==
  IF st.err # "none" THEN StatusError ELSE StatusOk(to_yaml_string(st.root))

\* What the read op returns on the pass state st.
read_value(op, st, path_expression) ==
  IF op = "has"
    THEN has_located(st, locate(st.root, path_expression)).ret
  ELSE IF op = "get_string" THEN hydra_config_get_string(st, path_expression)
  ELSE IF op = "get_int" THEN hydra_config_get_int(st, path_expression)
  ELSE hydra_config_to_yaml_string(st)

-----------------------------------------------------------------------------
(* Driver 11: a caller mixing merges, overrides and reads on one config.   *)
(* hshadow takes the same merges and overrides and is never read.          *)

\* The C API calls made on the config.
MaxApiCalls == 4

ApiContents ==
  { <<"a", ":", " ", "1">> \o <<"\n">> \o <<"b", ":", " ", "$", "{", "a", "}">> \o <<"\n">>,
    <<"a", ":", " ", "5">> \o <<"\n">> }

ApiOverrides == { <<"a", "=", "2">>, <<"+", "c", "=", "$", "{", "b", "}">> }

ApiPaths == { Ka, Kb }

\* hydra_config_create (lines 533-541).
ApiInit ==
  /\ hconfig = make_mapping /\ hshadow = make_mapping
  /\ hread = NoCall /\ hcalls = 0
  /\ iter = NullIter /\ ihist = <<>> /\ ihas = NoCall
  /\ AssignIdle /\ MergeIdle /\ LoadIdle /\ ResolveIdle /\ TextIdle
  /\ InitializeIdle /\ LoggingIdle

ApiMergeString(yaml_content) ==
  /\ hconfig' = hydra_config_merge_string(hconfig, yaml_content)
  /\ hshadow' = hydra_config_merge_string(hshadow, yaml_content)
  /\ UNCHANGED hread

ApiApplyOverride(expression) ==
  /\ hconfig' = hydra_config_apply_override(hconfig, expression)
  /\ hshadow' = hydra_config_apply_override(hshadow, expression)
  /\ UNCHANGED hread

\* A read: ensure_resolved runs on the config, then the value is looked up.
\* fresh is what the same read returns on the config that was never read.
ApiRead(op, path_expression) ==
  /\ hconfig' = ensure_resolved(hconfig, ApiWorld).root
  /\ hread' = [called |-> TRUE, op |-> op, path |-> path_expression,
               got |-> read_value(op, ensure_resolved(hconfig, ApiWorld),
                                  path_expression),
               fresh |-> read_value(op, ensure_resolved(hshadow, ApiWorld),
                                    path_expression)]
  /\ UNCHANGED hshadow

ApiStep ==
  \/ \E yaml_content \in ApiContents : ApiMergeString(yaml_content)
  \/ \E expression \in ApiOverrides : ApiApplyOverride(expression)
  \/ \E op \in {"has", "get_string", "get_int"}, path_expression \in ApiPaths :
       ApiRead(op, path_expression)
  \/ ApiRead("to_yaml_string", <<>>)

ApiNext ==
  /\ hcalls < MaxApiCalls
  /\ ApiStep
  /\ hcalls' = hcalls + 1
  /\ UNCHANGED <<iter, ihist, ihas>>
  /\ UNCHANGED <<assignVars, mergeVars, loadVars, resolveVars, textVars,
                 initVars, logVars>>

SpecApi == ApiInit /\ [][ApiNext]_vars

-----------------------------------------------------------------------------
(* Claims about the C API's reads (SpecApi).                               *)

\* C26: reads do not change what later operations observe: after any
\* sequence of merges and overrides a read returns the same value whether or
\* not other reads were made earlier; b = "${a}" read after an override of
\* a reflects the overridden a even if b was read before the override.
C26_ReadsLeaveNoTrace ==
  hread.called => hread.got = hread.fresh


-----------------------------------------------------------------------------
(* The bookkeeping keys of resolve_interpolations (SpecResolve).           *)

\* The string nodes of a tree that hold a placeholder.
WithPlaceholder(tree) ==
  {P \in StringPaths(tree, <<>>) :
     Len(Expressions(node_at(tree, P, 1).s, 0)) > 0}

\* C27: two distinct nodes of the tree never get the same bookkeeping key,
\* whatever the key names; so a pass over a tree in which no node's
\* resolution asks for itself never fails with a cycle error, and a pass
\* that succeeds has handed every string node holding a placeholder to
\* resolve_string (none was skipped as already resolved).
C27_DistinctKeys ==
  /\ \A P, Q \in NodePaths(rorig, <<>>) :
       P # Q => join_path(P) # join_path(Q)
  /\ (rpc = "failed" /\ rerr.kind = "Cycle") => NeedsItself(rorig) # {}
  /\ rpc = "done" => WithPlaceholder(rorig) \subseteq Range(rscans)


\* C28: every child_path hydra_config_iter_next returns names the node the
\* iterator stood at: on the unmodified config hydra_config_has returns 1
\* for it and the path is located at that very child, for mapping and for
\* sequence iterators.
C28_ChildPathNamesChild ==
  ihas.called =>
    /\ ihas.ret = 1
    /\ ihas.located.found
    /\ ihas.located.node = ihist[ihas.at].element.node


-----------------------------------------------------------------------------
(* What the defaults entries contributed (SpecLoad).                       *)

\* C29: no later defaults entry, and not the root file either, discards what
\* an earlier entry contributed: every top-level key the accumulator of the
\* root file held after one of its entries was merged is a key of the
\* composed result, whatever the later included files contain.
C29_ContributionsKept ==
  lpc = "done" =>
    \A i \in RootMerges :
      (llog[i].kind # "root" /\ llog[i].ok /\ is_mapping(llog[i].out)) =>
        /\ is_mapping(lret)
        /\ DOMAIN llog[i].out.m \subseteq DOMAIN lret.m


-----------------------------------------------------------------------------
(* Logging (src/logging.cpp): the module-level state of lines 22-24, the   *)
(* FILE objects of the C library and the callbacks of log.c.  A FILE* is a *)
(* positive number, 0 is nullptr; streams[h] tells the path the object was  *)
(* opened on and whether it is open.  Levels carry log.h's names.           *)

toupper(ch) ==
  IF \E i \in 1..Len(LowerCase) : LowerCase[i] = ch
    THEN UpperCase[CHOOSE i \in 1..Len(LowerCase) : LowerCase[i] = ch]
    ELSE ch

\* Lines 26-59, for a level_str that is not null.
parse_log_level(level_str) ==
  LET level == [i \in 1..Len(level_str) |-> toupper(level_str[i])] IN
  IF level = <<"T", "R", "A", "C", "E">> THEN "LOG_TRACE"
  ELSE IF level = <<"D", "E", "B", "U", "G">> THEN "LOG_DEBUG"
  ELSE IF level = <<"I", "N", "F", "O">> THEN "LOG_INFO"
  ELSE IF level = <<"W", "A", "R", "N">> \/ level = <<"W", "A", "R", "N", "I", "N", "G">> THEN "LOG_WARN"
  ELSE IF level = <<"E", "R", "R", "O", "R">> THEN "LOG_ERROR"
  ELSE IF level = <<"F", "A", "T", "A", "L">> THEN "LOG_FATAL"
  ELSE "LOG_INFO"

Khydra == <<"h", "y", "d", "r", "a">>
Kjob_logging == <<"j", "o", "b", "_", "l", "o", "g", "g", "i", "n", "g">>
LevelPath == <<Khydra, Kjob_logging, <<"r", "o", "o", "t">>, <<"l", "e", "v", "e", "l">>>>
HandlersPath == <<Khydra, Kjob_logging, <<"r", "o", "o", "t">>, <<"h", "a", "n", "d", "l", "e", "r", "s">>>>
FilenamePath == <<Khydra, Kjob_logging, <<"h", "a", "n", "d", "l", "e", "r", "s">>, <<"f", "i", "l", "e">>, <<"f", "i", "l", "e", "n", "a", "m", "e">>>>
RunDirPath == <<Khydra, <<"r", "u", "n">>, <<"d", "i", "r">>>>

\* Lines 76-89.
level_of(node) ==
  LET level_node == find_path(node, LevelPath) IN
  IF level_node.found /\ is_string(level_node.node)
    THEN parse_log_level(level_node.node.s)
    ELSE parse_log_level(<<"I", "N", "F", "O">>)

\* Lines 92-112.
enable_file_logging(node) ==
  LET handlers_node == find_path(node, HandlersPath) IN
  /\ handlers_node.found /\ is_sequence(handlers_node.node)
  /\ \E i \in 1..Len(handlers_node.node.q) :
       /\ is_string(handlers_node.node.q[i])
       /\ handlers_node.node.q[i].s = <<"f", "i", "l", "e">>

\* Lines 118-139.
log_path_str(node) ==
  LET filename_node == find_path(node, FilenamePath)
      run_dir_node == find_path(node, RunDirPath)
      job_name_node == find_path(node, JobNamePath)
  IN  IF filename_node.found /\ is_string(filename_node.node)
        THEN filename_node.node.s
        ELSE (IF run_dir_node.found /\ is_string(run_dir_node.node)
                THEN run_dir_node.node.s ELSE <<".">>)
             \o <<"/">>
             \o (IF job_name_node.found /\ is_string(job_name_node.node)
                   THEN job_name_node.node.s ELSE <<"a", "p", "p">>)
             \o <<".", "l", "o", "g">>

\* std::filesystem::path::operator/ with a relative right-hand side: the
\* separator is added unless the left side is empty or ends with one.
path_append(left, right) ==
  IF left = <<>> \/ left[Len(left)] = "/" THEN left \o right
  ELSE left \o <<"/">> \o right

\* The module-level state and the library state it acts on, as one record.
Logging ==
  [log_file_handle |-> log_file_handle,
   current_log_file_path |-> current_log_file_path,
   log_file_callback_index |-> log_file_callback_index,
   streams |-> streams, callbacks |-> callbacks]

\* std::fclose on the handle (lines 151-152, 279-280).
fclose(L) ==
  [L EXCEPT !.streams[L.log_file_handle].open = FALSE,
            !.log_file_handle = 0]

\* What std::fopen may return: nullptr, a new object, or the address of an
\* object closed before.
MayOpen(L) ==
  {0, Len(L.streams) + 1} \cup
  {h \in 1..Len(L.streams) : ~L.streams[h].open}

\* std::fopen returning the object OPENED on PATH.
fopen(L, path, opened) ==
  IF opened = 0 THEN [L EXCEPT !.log_file_handle = 0]
  ELSE [L EXCEPT !.log_file_handle = opened,
                 !.streams = IF opened > Len(L.streams)
                               THEN Append(L.streams,
                                           [path |-> path, open |-> TRUE])
                               ELSE [L.streams EXCEPT ![opened] =
                                       [path |-> path, open |-> TRUE]]]

\* Lines 164-166 and 292-294: log_add_fp stores the FILE* in a free slot of
\* log.c and returns 0, or returns -1 when no slot is free.
add_callback(L, slot) ==
  IF L.log_file_callback_index < 0 /\ slot
    THEN [L EXCEPT !.log_file_callback_index = 0,
                   !.callbacks = Append(L.callbacks, L.log_file_handle)]
    ELSE L

\* Lines 150-154.
close_existing(L) ==
  IF L.log_file_handle # 0
    THEN [fclose(L) EXCEPT !.current_log_file_path = <<>>]
    ELSE L

\* Lines 157-168.
open_log_file(L, path, opened, slot) ==
  IF opened = 0 THEN fopen(L, path, 0)
  ELSE add_callback([fopen(L, path, opened)
                       EXCEPT !.current_log_file_path = path], slot)

\* Lines 141-168 of hydra::init_logging, file logging being enabled.
init_logging_file(L, path, opened, slot) ==
  IF path = <<>> \/ path = <<"n", "u", "l", "l">> THEN L
  ELSE IF L.log_file_handle # 0 /\ L.current_log_file_path = path THEN L
  ELSE open_log_file(close_existing(L), path, opened, slot)

\* Lines 277-294 of hydra_logging_setup_file.
setup_file(L, path, opened, slot) ==
  IF opened = 0
    THEN fopen(IF L.log_file_handle # 0 THEN fclose(L) ELSE L, path, 0)
    ELSE add_callback(
           fopen(IF L.log_file_handle # 0 THEN fclose(L) ELSE L,
                 path, opened), slot)

SetLogging(L) ==
  /\ log_file_handle' = L.log_file_handle
  /\ current_log_file_path' = L.current_log_file_path
  /\ log_file_callback_index' = L.log_file_callback_index
  /\ streams' = L.streams
  /\ callbacks' = L.callbacks

-----------------------------------------------------------------------------
(* Driver 12: a program calling hydra::init_logging and                    *)
(* hydra_logging_setup_file in any order.                                  *)

MaxLogCalls == 4

LogRoot(level, handler) ==
  make_map((<<"l", "e", "v", "e", "l">> :> level)
           @@ (<<"h", "a", "n", "d", "l", "e", "r", "s">> :> make_seq(<<make_string(handler)>>)))

LogTree(level, handler, file_name, dir) ==
  make_map(Khydra :> make_map(
    (Kjob_logging :> make_map(
       (<<"r", "o", "o", "t">> :> LogRoot(level, handler))
       @@ (<<"h", "a", "n", "d", "l", "e", "r", "s">> :> make_map(<<"f", "i", "l", "e">> :>
             make_map(<<"f", "i", "l", "e", "n", "a", "m", "e">> :> file_name)))))
    @@ (<<"r", "u", "n">> :> make_map(<<"d", "i", "r">> :> dir))))

LogConfigs ==
  {make_null, make_map(Khydra :> make_int(1)),
   LogTree(make_null, <<"c", "o", "n", "s", "o", "l", "e">>, make_string(<<"a", ".", "l", "o", "g">>), make_null)}
  \cup
  {LogTree(make_string(<<"d", "e", "b", "u", "g">>), <<"f", "i", "l", "e">>, make_string(file_name),
           make_string(<<"x">>)) :
     file_name \in {<<"a", ".", "l", "o", "g">>, <<"x", "/", "a", "p", "p", ".", "l", "o", "g">>, <<"n", "u", "l", "l">>}}
  \cup
  {LogTree(make_string(<<"W", "a", "r", "n", "i", "n", "g">>), <<"f", "i", "l", "e">>, make_null, dir) :
     dir \in {make_string(<<"x">>), make_null}}

RunDirs == {CString(<<"x">>), CString(<<>>), Nullptr}

LoggingInit ==
  /\ LoggingIdle
  /\ AssignIdle /\ MergeIdle /\ LoadIdle /\ ResolveIdle /\ TextIdle
  /\ InitializeIdle /\ CApiIdle

\* hydra::init_logging(config), lines 75-173.
InitLogging(c, opened, slot) ==
  /\ log_level' = level_of(c)
  /\ IF enable_file_logging(c)
       THEN /\ opened \in MayOpen(close_existing(Logging))
            /\ SetLogging(init_logging_file(Logging, log_path_str(c),
                                            opened, slot))
            /\ lastlog' =
                 [called |-> TRUE, op |-> "init_logging",
                  path |-> log_path_str(c),
                  skipped |-> /\ log_path_str(c) \notin {<<>>, <<"n", "u", "l", "l">>}
                              /\ log_file_handle # 0
                              /\ current_log_file_path = log_path_str(c),
                  status |-> "HYDRA_STATUS_OK"]
       ELSE /\ opened = 0 /\ ~slot
            /\ SetLogging(Logging)
            /\ lastlog' =
                 [called |-> TRUE, op |-> "init_logging", path |-> <<>>,
                  skipped |-> FALSE, status |-> "HYDRA_STATUS_OK"]

\* hydra_logging_setup_file(run_dir, &error_message), lines 261-302.
SetupFile(run_dir, opened, slot) ==
  /\ UNCHANGED log_level
  /\ IF run_dir.null
       THEN /\ opened = 0 /\ ~slot
            /\ SetLogging(Logging)
            /\ lastlog' =
                 [called |-> TRUE, op |-> "hydra_logging_setup_file",
                  path |-> <<>>, skipped |-> FALSE,
                  status |-> "HYDRA_STATUS_ERROR"]
       ELSE /\ opened \in MayOpen(IF log_file_handle # 0
                                    THEN fclose(Logging) ELSE Logging)
            /\ SetLogging(setup_file(Logging,
                                     path_append(run_dir.s, <<"a", "p", "p", ".", "l", "o", "g">>),
                                     opened, slot))
            /\ lastlog' =
                 [called |-> TRUE, op |-> "hydra_logging_setup_file",
                  path |-> path_append(run_dir.s, <<"a", "p", "p", ".", "l", "o", "g">>),
                  skipped |-> FALSE,
                  status |-> IF opened = 0 THEN "HYDRA_STATUS_ERROR"
                             ELSE "HYDRA_STATUS_OK"]

LoggingStep ==
  \/ \E c \in LogConfigs, opened \in 0..MaxLogCalls, slot \in BOOLEAN :
       InitLogging(c, opened, slot)
  \/ \E run_dir \in RunDirs, opened \in 0..MaxLogCalls, slot \in BOOLEAN :
       SetupFile(run_dir, opened, slot)

LoggingNext ==
  /\ logcalls < MaxLogCalls
  /\ LoggingStep
  /\ logcalls' = logcalls + 1
  /\ UNCHANGED <<assignVars, mergeVars, loadVars, resolveVars, textVars,
                 initVars, capiVars>>

SpecLogging == LoggingInit /\ [][LoggingNext]_vars

-----------------------------------------------------------------------------
(* Claims about the log file (SpecLogging).                                *)

OpenStreams == {h \in 1..Len(streams) : streams[h].open}

\* C30: after any sequence of init_logging and hydra_logging_setup_file
\* calls at most one log file is open; the FILE* registered with log.c is
\* the handle that is open now; current_log_file_path names the file the
\* open handle was opened on; and init_logging skips opening only when
\* the open handle writes to the file it was asked for.
C30_OneLogFile ==
  /\ Cardinality(OpenStreams) <= 1
  /\ OpenStreams \subseteq {log_file_handle}
  /\ \A i \in 1..Len(callbacks) :
       /\ streams[callbacks[i]].open
       /\ callbacks[i] = log_file_handle
  /\ log_file_handle # 0 =>
       current_log_file_path = streams[log_file_handle].path
  /\ (lastlog.called /\ lastlog.skipped) =>
       /\ log_file_handle # 0
       /\ streams[log_file_handle].path = lastlog.path

=============================================================================
